---------------------------- MODULE Spec2Model ----------------------------
(***************************************************************************)
(* A model of the refinement core of auto-paper-generator:                 *)
(*   - the Patch Executor and the paragraph parser (core/expert_review.py),*)
(*   - the Refinement Controller (core/expert_review.py),                  *)
(*   - the score recognizer and the Task Planner's parser (the same file), *)
(*   - the Citation Ledger (core/citation_manager.py).                     *)
(*                                                                         *)
(* Texts are strings.  The source works on Unicode text; the module is     *)
(* ASCII, so the CJK characters that the source's patterns name are        *)
(* written with the stand-ins below, one character for one character       *)
(* (lengths are those of the source text):                                 *)
(*     "Y"  a Chinese numeral, one of the ten the patterns list            *)
(*     "D"  the enumeration comma  (U+3001)                                *)
(*     "F"  the full-width full stop (U+FF0E)                              *)
(*     "L"  the full-width left parenthesis,  "R" the right one            *)
(* Every other character stands for itself.                                *)
(***************************************************************************)
EXTENDS Integers, Sequences, FiniteSets, TLC

(***************************************************************************)
(* Text primitives (Python str and re, as the source uses them).           *)
(***************************************************************************)

\* s[i-1] in Python terms: the i-th character, 1-based.
Ch(s, i) == IF 1 <= i /\ i <= Len(s) THEN SubSeq(s, i, i) ELSE ""

\* s[:n]
Prefix(s, n) == SubSeq(s, 1, IF n < Len(s) THEN n ELSE Len(s))

\* s[n:] with n counted from 0
Suffix(s, n) == SubSeq(s, n + 1, Len(s))

\* str.isspace for one character, which is also the class \s of re: the
\* characters Python counts as whitespace up to U+00FF.  \v (0x0B), the
\* separators 0x1C, 0x1D, 0x1E and 0x1F, NEL (0x85) and the no-break space
\* (0xA0) have no escape in a string of this module and are written as the
\* characters themselves, in this order, after "\f".  The spaces from U+1680
\* on cannot be written in a string of the module.
IsWs(c) ==
    c \in {" ", "\n", "\t", "\r", "\f", "", "", "", "", "", "", " "}

\* \d for one character
IsDigit(c) == c \in {"0", "1", "2", "3", "4", "5", "6", "7", "8", "9"}

\* one of the numerals of the class [一二三四五六七八九十]
IsCnNumeral(c) == c = "Y"

\* str.startswith
StartsWith(s, p) == Len(s) >= Len(p) /\ SubSeq(s, 1, Len(p)) = p

\* k in s  (substring test)
Contains(s, k) ==
    \E i \in 1..(Len(s) - Len(k) + 1) : SubSeq(s, i, i + Len(k) - 1) = k

\* the number of leading whitespace characters of s
RECURSIVE LeadWs(_)
LeadWs(s) ==
    IF s = "" \/ ~IsWs(Ch(s, 1)) THEN 0 ELSE 1 + LeadWs(Suffix(s, 1))

\* the number of trailing whitespace characters of s
RECURSIVE TrailWs(_)
TrailWs(s) ==
    IF s = "" \/ ~IsWs(Ch(s, Len(s))) THEN 0
    ELSE 1 + TrailWs(SubSeq(s, 1, Len(s) - 1))

\* str.strip()
Strip(s) ==
    LET a == LeadWs(s)
    IN  IF a = Len(s) THEN "" ELSE SubSeq(s, a + 1, Len(s) - TrailWs(s))

\* the 1-based index of the first occurrence of sep in s at or after i, 0 if none
RECURSIVE FindFrom(_, _, _)
FindFrom(s, sep, i) ==
    IF i + Len(sep) - 1 > Len(s) THEN 0
    ELSE IF SubSeq(s, i, i + Len(sep) - 1) = sep THEN i
    ELSE FindFrom(s, sep, i + 1)

\* str.split(sep) for a non-empty separator
RECURSIVE Split(_, _)
Split(s, sep) ==
    LET i == FindFrom(s, sep, 1)
    IN  IF i = 0 THEN <<s>>
        ELSE <<SubSeq(s, 1, i - 1)>> \o Split(Suffix(s, i + Len(sep) - 1), sep)

\* sep.join(parts)
RECURSIVE Join(_, _)
Join(parts, sep) ==
    IF parts = <<>> THEN ""
    ELSE IF Len(parts) = 1 THEN parts[1]
    ELSE parts[1] \o sep \o Join(Tail(parts), sep)

\* str.split() with no argument: the maximal runs of non-whitespace
RECURSIVE SplitWs(_)
SplitWs(s) ==
    LET t == Suffix(s, LeadWs(s))
        RECURSIVE WordLen(_)
        WordLen(u) == IF u = "" \/ IsWs(Ch(u, 1)) THEN 0
                      ELSE 1 + WordLen(Suffix(u, 1))
    IN  IF t = "" THEN <<>>
        ELSE <<Prefix(t, WordLen(t))>> \o SplitWs(Suffix(t, WordLen(t)))

\* the length of the run of characters satisfying the class, from position i
RECURSIVE DigitRun(_, _)
DigitRun(s, i) ==
    IF i > Len(s) \/ ~IsDigit(Ch(s, i)) THEN 0 ELSE 1 + DigitRun(s, i + 1)

RECURSIVE CnNumeralRun(_, _)
CnNumeralRun(s, i) ==
    IF i > Len(s) \/ ~IsCnNumeral(Ch(s, i)) THEN 0 ELSE 1 + CnNumeralRun(s, i + 1)

\* set(re.findall(r'\[(\d+)\]', s)): the digit strings that stand between
\* brackets, as strings ("07" and "7" are two members)
CitationRefs(s) ==
    { SubSeq(s, i + 1, i + DigitRun(s, i + 1)) :
        i \in { j \in 1..Len(s) :
                  /\ Ch(s, j) = "["
                  /\ DigitRun(s, j + 1) > 0
                  /\ Ch(s, j + 1 + DigitRun(s, j + 1)) = "]" } }

(***************************************************************************)
(* The paragraph parser: ExpertReviewSystem._extract_paper_paragraphs.     *)
(***************************************************************************)

\* the minimum length of a block that is kept as a body paragraph
MinParagraphLen == 20

\* how far from its start a block is searched for "]" to be a reference entry
RefEntryWindow == 20

\* re.match of one of heading_patterns on a stripped block.  \s+(.+) after a
\* prefix needs a whitespace character next and a further character after the
\* whitespace, which a stripped block always has; \s*(.+) needs one more
\* character of any kind.
MatchesHashHeading(para, hashes) ==
    StartsWith(para, hashes) /\ IsWs(Ch(para, Len(hashes) + 1))

MatchesCnHeading(para) ==
    LET n == CnNumeralRun(para, 1)
    IN  n > 0 /\ Ch(para, n + 1) \in {"D", "F", "."} /\ Len(para) > n + 1

MatchesCnParenHeading(para) ==
    LET n == CnNumeralRun(para, 2)
    IN  Ch(para, 1) = "L" /\ n > 0 /\ Ch(para, n + 2) = "R" /\ Len(para) > n + 2

MatchesDigitHeading(para) ==
    LET n == DigitRun(para, 1)
    IN  n > 0 /\ Ch(para, n + 1) \in {".", "D"} /\ Len(para) > n + 1

IsHeading(para) ==
    \/ MatchesHashHeading(para, "##")
    \/ MatchesHashHeading(para, "###")
    \/ MatchesHashHeading(para, "#")
    \/ MatchesCnHeading(para)
    \/ MatchesCnParenHeading(para)
    \/ MatchesDigitHeading(para)

\* para.startswith('[') and ']' in para[:20]
IsReferenceEntry(para) ==
    StartsWith(para, "[") /\ Contains(Prefix(para, RefEntryWindow), "]")

\* The loop body over paper.split('\n\n'): the entries appended for the blocks,
\* in order.  An entry's idx is its position in the list (0-based in the
\* source, 1-based here); location and preview only feed log lines and prompts.
RECURSIVE ParagraphEntries(_)
ParagraphEntries(blocks) ==
    IF blocks = <<>> THEN <<>>
    ELSE LET para == Strip(Head(blocks))
             rest == ParagraphEntries(Tail(blocks))
         IN  IF para = "" THEN rest
             ELSE IF IsHeading(para)
                  THEN <<[full_text |-> para, is_heading |-> TRUE]>> \o rest
             ELSE IF IsReferenceEntry(para) THEN rest
             ELSE IF Len(para) < MinParagraphLen THEN rest
             ELSE <<[full_text |-> para, is_heading |-> FALSE]>> \o rest

ExtractPaperParagraphs(paper) == ParagraphEntries(Split(paper, "\n\n"))

(***************************************************************************)
(* The Patch Executor: _patch_modify_paragraph and the task loop of        *)
(* _execute_tasks_sequentially.                                            *)
(*                                                                         *)
(* A collaborator response is [raises, text]: router.generate either       *)
(* raises or returns text.  A task is [problem, requirement, keywords,     *)
(* paragraph_index]; paragraph_index = NoIndex when the task has no such   *)
(* key (indices are 0-based as in the source).                             *)
(***************************************************************************)

NoIndex == -1

\* the shortest collaborator output that is not discarded as empty
MinResultLen == 10

\* the early return of _patch_modify_paragraph: no collaborator call is made
PatchSkipsCall(original_text) ==
    Len(original_text) < MinParagraphLen \/ StartsWith(original_text, "#")

\* lost_refs is non-empty
LosesRefs(original_text, result) ==
    LET orig_refs == CitationRefs(original_text)
        new_refs  == CitationRefs(result)
    IN  orig_refs # {} /\ (orig_refs \ new_refs) # {}

\* the length check with the two bounds themselves turned down
LengthOutOfBounds_Exclusive(original_text, result) ==
    \/ 2 * Len(result) <= Len(original_text)
    \/ Len(result) >= 2 * Len(original_text)

\* length_ratio < 0.5 or length_ratio > 2.0, on integer lengths
LengthOutOfBounds(original_text, result) ==
    \/ 2 * Len(result) < Len(original_text)
    \/ Len(result) > 2 * Len(original_text)

\* _patch_modify_paragraph without the comparison of lines 852-859
PatchModifyParagraph_NoRefCheck(original_text, resp) ==
    IF PatchSkipsCall(original_text) THEN original_text
    ELSE IF resp.raises THEN original_text
    ELSE LET result == Strip(resp.text)
         IN  IF result = "" \/ Len(result) < MinResultLen THEN original_text
             ELSE IF LengthOutOfBounds(original_text, result) THEN original_text
             ELSE result

\* _patch_modify_paragraph(original_text, task) given the collaborator's response
PatchModifyParagraph(original_text, resp) ==
    IF PatchSkipsCall(original_text) THEN original_text
    ELSE IF resp.raises THEN original_text
    ELSE LET result == Strip(resp.text)
         IN  IF result = "" \/ Len(result) < MinResultLen THEN original_text
             ELSE IF LosesRefs(original_text, result) THEN original_text
             ELSE IF LengthOutOfBounds(original_text, result) THEN original_text
             ELSE result

\* list(problem[:10]): the first ten characters, one key each
RECURSIVE CharsOf(_)
CharsOf(s) == IF s = "" THEN <<>> ELSE <<Ch(s, 1)>> \o CharsOf(Suffix(s, 1))

ProblemKeyLen == 10

SearchKeys(task) ==
    SplitWs(task.keywords) \o CharsOf(Prefix(task.problem, ProblemKeyLen))

\* score: the number of search keys (with repetitions) found in the text
KeywordScore(keys, text) ==
    Cardinality({ i \in 1..Len(keys) : Contains(text, keys[i]) })

\* The keyword scan: the first paragraph with the strictly highest score >= 1
\* among those whose text does not start with '#'; 0 when there is none.
\* Returns a 1-based position in paragraphs.
RECURSIVE KeywordScan(_, _, _, _, _)
KeywordScan(paragraphs, keys, i, best_score, best) ==
    IF i > Len(paragraphs) THEN best
    ELSE LET text  == paragraphs[i].full_text
             score == KeywordScore(keys, text)
         IN  IF StartsWith(Strip(text), "#")
             THEN KeywordScan(paragraphs, keys, i + 1, best_score, best)
             ELSE IF score > best_score /\ score >= 1
             THEN KeywordScan(paragraphs, keys, i + 1, score, i)
             ELSE KeywordScan(paragraphs, keys, i + 1, best_score, best)

\* The target of a task: the 1-based position of target_para, 0 for None.
LocateTarget(paragraphs, task) ==
    LET byIndex == IF /\ task.paragraph_index # NoIndex
                      /\ 0 <= task.paragraph_index
                      /\ task.paragraph_index < Len(paragraphs)
                   THEN task.paragraph_index + 1 ELSE 0
    IN  IF byIndex # 0 THEN byIndex
        ELSE IF task.keywords # ""
        THEN KeywordScan(paragraphs, SearchKeys(task), 1, 0, 0)
        ELSE 0

\* one iteration of the loop without the check of lines 791-793
TaskStep_NoSkip(st, task, resp) ==
    LET target == LocateTarget(st.paragraphs, task)
    IN  IF target = 0 THEN st
        ELSE LET old == st.paragraphs[target].full_text
                 new_content == PatchModifyParagraph(old, resp)
                 called == IF PatchSkipsCall(old) THEN 0 ELSE 1
             IN  IF new_content # "" /\ new_content # old
                 THEN [paragraphs |-> [st.paragraphs EXCEPT
                                          ![target].full_text = new_content],
                       modified_indices |-> st.modified_indices \cup {target},
                       calls |-> st.calls + called]
                 ELSE [st EXCEPT !.calls = st.calls + called]

\* One iteration of "for task in task_list" on the loop state
\* st = [paragraphs, modified_indices, calls]; calls counts the collaborator
\* calls made so far (router.generate in _patch_modify_paragraph).
TaskStep(st, task, resp) ==
    LET target == LocateTarget(st.paragraphs, task)
    IN  IF target = 0 THEN st
        ELSE IF target \in st.modified_indices THEN st
        ELSE LET old == st.paragraphs[target].full_text
                 new_content == PatchModifyParagraph(old, resp)
                 called == IF PatchSkipsCall(old) THEN 0 ELSE 1
             IN  IF new_content # "" /\ new_content # old
                 THEN [paragraphs |-> [st.paragraphs EXCEPT
                                          ![target].full_text = new_content],
                       modified_indices |-> st.modified_indices \cup {target},
                       calls |-> st.calls + called]
                 ELSE [st EXCEPT !.calls = st.calls + called]

\* "\n\n".join([p['full_text'] for p in paragraphs])
Reassemble(paragraphs) ==
    Join([i \in 1..Len(paragraphs) |-> paragraphs[i].full_text], "\n\n")

\* the loop of _execute_tasks_sequentially from task number i on
RECURSIVE RunTasks(_, _, _, _)
RunTasks(st, task_list, resps, i) ==
    IF i > Len(task_list) THEN st
    ELSE RunTasks(TaskStep(st, task_list[i], resps[i]), task_list, resps, i + 1)

ParseFailed_Never(paragraphs) == FALSE

\* line 742: the parser found no entry, heading or body paragraph
ParseFailed(paragraphs) == paragraphs = <<>>

\* _execute_tasks_sequentially(paper, task_list), the i-th collaborator
\* response being the one the i-th task would receive if it makes a call
ExecuteTasksSequentially(paper, task_list, resps) ==
    IF task_list = <<>> THEN paper
    ELSE LET paragraphs == ExtractPaperParagraphs(paper)
         IN  IF ParseFailed(paragraphs) THEN paper
             ELSE Reassemble(RunTasks([paragraphs |-> paragraphs,
                                       modified_indices |-> {},
                                       calls |-> 0],
                                      task_list, resps, 1).paragraphs)

(***************************************************************************)
(* Inputs: documents, tasks and collaborator responses.                    *)
(***************************************************************************)

\* the blocks of the structured draft
HeadIntro   == "## Intro"
ParaAlpha   == "Alpha claims hold [3][7] here."
ShortBlock  == "Short one."
HeadMethod  == "YDMethod"
ParaBeta    == "Beta result stands firm [2] too."
HeadRefs    == "## References"
RefEntry3   == "[3] Li. Title A. 2020."
RefEntry7   == "[7] Wu. Title B. 2021."

\* a draft as generate_paper assembles it: headings, body paragraphs, a short
\* block and the reference list, joined by blank lines
DraftStructured ==
    Join(<<HeadIntro, ParaAlpha, ShortBlock, HeadMethod, ParaBeta,
           HeadRefs, RefEntry3, RefEntry7>>, "\n\n")

\* a draft of body paragraphs only, the blocks already stripped
DraftPlain == "Alpha claims hold [3][7] here.\n\nBeta result stands firm [2] too."

\* a draft with no heading and no block of the minimum length
DraftTiny == "Tiny text.\n\nMore tiny."

\* a numbered heading, longer than the minimum paragraph length
HeadNumbered == "1. Alpha method and materials"

\* a draft whose only heading is numbered
DraftNumbered == Join(<<HeadNumbered, ParaBeta>>, "\n\n")

Drafts == {DraftStructured, DraftPlain, DraftTiny, DraftNumbered}

Task(problem, keywords, index) ==
    [problem |-> problem, requirement |-> "revise",
     keywords |-> keywords, paragraph_index |-> index]

\* tasks as _task_decomposer builds them (no paragraph_index key)
TaskAlpha   == Task("", "Alpha", NoIndex)
TaskBeta    == Task("", "Beta firm", NoIndex)
TaskNoMatch == Task("", "Zeta", NoIndex)
\* the generic task of _task_decomposer, with its problem text shortened
TaskGeneric == Task("overall", "", NoIndex)
\* tasks that carry a paragraph_index (0-based)
TaskIndex0  == Task("", "", 0)
TaskIndex1  == Task("", "", 1)

DecomposerTasks == {TaskAlpha, TaskBeta, TaskNoMatch, TaskGeneric}
Tasks == DecomposerTasks \cup {TaskIndex0, TaskIndex1}

Returns(text) == [raises |-> FALSE, text |-> text]

\* keeps every marker of both paragraphs, adds [9]
RespKeepAll == Returns(" Alpha Beta claims stand [2][3][7][9]. ")
\* lacks [7]
RespDrop7   == Returns("Beta claims hold [3][2] here, ok.")
RespShort   == Returns("  ok  ")
RespEmpty   == Returns("")
\* more than twice as long as either paragraph, markers kept
RespLong    ==
    Returns("Alpha Beta [2][3][7] and a great many more words than the paragraph had before.")
RespRaises  == [raises |-> TRUE, text |-> ""]
\* exactly half and exactly twice as long as ParaAlpha, its markers kept
RespHalf    == Returns("[3][7] is kept.")
RespDouble  == Returns("Alpha claims [3][7] hold, hold and hold again and once more.")
\* ParaAlpha itself
RespSame    == Returns(ParaAlpha)

Responses == {RespKeepAll, RespDrop7, RespShort, RespEmpty, RespLong, RespRaises,
              RespHalf, RespDouble, RespSame}

\* the longest task list of one run
MaxTasks == 2

\* the sequences over S of length at most n
RECURSIVE SeqsUpTo(_, _)
SeqsUpTo(S, n) ==
    IF n = 0 THEN {<<>>}
    ELSE LET shorter == SeqsUpTo(S, n - 1)
         IN  shorter \cup { Append(q, x) : q \in shorter, x \in S }

(***************************************************************************)
(* State.                                                                  *)
(***************************************************************************)
VARIABLES
    \* one run of _execute_tasks_sequentially
    pPaper,       \* the argument paper
    pTasks,       \* the argument task_list
    pPc,          \* "start", "loop", "done" ("idle": no run)
    pPos,         \* the 1-based position of the next task of the loop
    pState,       \* [paragraphs, modified_indices, calls]
    pResult,      \* the returned paper, "" until the run returns
    pLast,        \* the latest task's passage through the loop body
    \* one run of review_and_optimize_iteratively
    ctl,          \* the ExpertReviewSystem's settings and the run's locals
    cPc,          \* "loop", "exit" (after the for loop), "done", "raised"
                  \* ("idle": no run)
    cResult,      \* the returned dict
    \* one CitationManager
    ledger,       \* the object's fields
    \* one call of a text recognizer of the ExpertReviewSystem
    rev,          \* [op, input, done, score, tasks]
    \* one ModelRouter and the clock of its process
    rt            \* the router's fields and the locals of _call_provider

patchVars  == <<pPaper, pTasks, pPc, pPos, pState, pResult, pLast>>
ctlVars    == <<ctl, cPc, cResult>>
ledgerVars == <<ledger>>
reviewVars == <<rev>>
routerVars == <<rt>>

vars == <<patchVars, ctlVars, ledgerVars, reviewVars, routerVars>>

(***************************************************************************)
(* The Refinement Controller: review_and_optimize_iteratively and the      *)
(* part of _single_round_review_and_optimize that decides its result.      *)
(***************************************************************************)

\* the largest max_rounds a run is configured with
MaxRounds == 3

\* target_score settings
TargetScores == {60, 90}

\* the value _extract_comprehensive_score returns when every pattern fails
DefaultScore == 60

\* values of _extract_comprehensive_score on the synthesis text
ExtractedScores == {0, 58, DefaultScore, 62, 90}

\* values of expert1_score + expert2_score + expert3_score + expert4_score
DirectSums == {0, 62}

\* lines 142-150: the round's integrated score
ComprehensiveScore(extracted, direct_sum) ==
    IF extracted = DefaultScore /\ direct_sum > 0 THEN direct_sum ELSE extracted

\* task lists of _task_decomposer (never empty) and the responses of the
\* patching collaborator that the controller's runs draw from
RoundTaskLists == {<<TaskAlpha>>, <<TaskBeta>>}
RoundResponses == {RespKeepAll, RespDrop7, RespRaises}

\* the calls of the patching collaborator that
\* _execute_tasks_sequentially(paper, task_list) makes
PatchCalls(paper, task_list, resps) ==
    IF task_list = <<>> \/ ParseFailed(ExtractPaperParagraphs(paper)) THEN 0
    ELSE RunTasks([paragraphs |-> ExtractPaperParagraphs(paper),
                   modified_indices |-> {}, calls |-> 0],
                  task_list, resps, 1).calls

\* lines 114-138: the document the four experts are given, whose critiques
\* the synthesis scores; optimized_paper is made after it, at line 161
ScoredPaper(paper, optimized_paper) == paper

\* the phases of a round, in the order of the source, each a call of the
\* generation collaborator or several
RoundPhases == <<"critique", "synthesis", "planning", "patching">>

\* a generation failure in the phase is caught inside the round: only
\* _patch_modify_paragraph wraps its call in try/except (lines 839-871)
Swallows(phase) == phase = "patching"

\* the results a round on paper can have, over the collaborators' answers;
\* patch_failed: a call of the patching collaborator raised
RoundResults(paper) ==
    LET patches == { [optimized_paper |->
                          ExecuteTasksSequentially(paper, task_list,
                              [i \in DOMAIN task_list |-> resp]),
                      patch_failed |->
                          resp.raises /\ PatchCalls(paper, task_list,
                              [i \in DOMAIN task_list |-> resp]) > 0] :
                      task_list \in RoundTaskLists, resp \in RoundResponses }
        scores == { ComprehensiveScore(extracted, direct_sum) :
                      extracted \in ExtractedScores, direct_sum \in DirectSums }
    IN  { [optimized_paper |-> patch.optimized_paper, score |-> score,
           patch_failed |-> patch.patch_failed] :
            patch \in patches, score \in scores }

\* line 64: is the round's document the new best
Accepts_NotLower(current_score, best_score) == current_score >= best_score

Accepts_Always(current_score, best_score) == TRUE

Accepts(current_score, best_score) == current_score > best_score

\* lines 67 and 72: the next round's input
NextCurrentPaper_KeepsRejected(accepted, optimized_paper, best_paper) ==
    optimized_paper

NextCurrentPaper(accepted, optimized_paper, best_paper) ==
    IF accepted THEN optimized_paper ELSE best_paper

\* lines 49 and 75: does the loop end after this round
LoopEnds_IgnoresTarget(best_score, target_score, round_num, max_rounds) ==
    round_num = max_rounds

LoopEnds(best_score, target_score, round_num, max_rounds) ==
    best_score >= target_score \/ round_num = max_rounds

NoResult == [final_paper |-> "", rounds |-> 0, final_score |-> 0,
             all_reviews |-> <<>>]

NoCtl == [max_rounds |-> 0, target_score |-> 0, paper_content |-> "",
          current_paper |-> "", best_paper |-> "", best_score |-> 0,
          round_num |-> 0, all_reviews |-> <<>>, failure |-> "none"]

CtlIdle ==
    /\ ctl = NoCtl
    /\ cPc = "idle"
    /\ cResult = NoResult

(***************************************************************************)
(* The Citation Ledger: CitationManager.                                   *)
(***************************************************************************)

Regions == {"introduction", "chapter_1", "chapter_2", "chapter_3", "conclusion"}

\* the literature pool: the records LiteratureParser builds from the four lines
\* that are their full_citation (the id is the number the line bears in the
\* pool file, the authors are what stands before the first full stop, the year
\* is the first 19xx or 20xx after the type mark [J] or [M]; entries are
\* deduplicated by title, so two records may bear the same id)
Pool == << [id |-> 1, authors |-> "Li, Wu", year |-> "2020",
            full_citation |-> "[1] Li, Wu. Title A[J]. Journal, 2020."],
           [id |-> 2, authors |-> "Li",     year |-> "2021",
            full_citation |-> "[2]  Li. Title B[J]. Journal, 2021."],
           [id |-> 3, authors |-> "Chen",   year |-> "2020",
            full_citation |-> "[3]Chen. Title C [4][M]. Press, 2020."],
           [id |-> 2, authors |-> "Zhao",   year |-> "2019",
            full_citation |-> "[2] Zhao. Title D[J]. Journal, 2019."] >>

\* citation.max_total settings
MaxTotals == {2, 25}

\* the largest chapter_idx and subsection_idx passed to set_current_section
MaxChapterIdx == 1
MaxSubsection == 1

\* math.ceil(a / b) for positive b
CeilDiv(a, b) == (a + b - 1) \div b

\* lines 36-53 without the deduction of lines 43-45
ChapterQuotas_NoTrim(total) ==
    [r \in Regions |->
        IF r = "introduction" THEN CeilDiv(total * 10, 100)
        ELSE IF r = "conclusion" THEN 0
        ELSE CeilDiv(total * 30, 100)]

\* lines 36-53: the section quotas for a global total.  math.ceil(total * 0.10)
\* and math.ceil(total * 0.30) are the ceilings of the exact products: the
\* float 0.30 is below 0.30, and the float 0.10 is above 0.10 by 0.1 / 2^54,
\* less than half the gap to the next float of any integer product
ChapterQuotas(total) ==
    LET intro_quota     == CeilDiv(total * 10, 100)
        chapter_ceil    == CeilDiv(total * 30, 100)
        total_allocated == intro_quota + chapter_ceil * 3
        chapter_quota   == IF total_allocated > total
                           THEN chapter_ceil - ((total_allocated - total) + 2) \div 3
                           ELSE chapter_ceil
    IN  [r \in Regions |->
            IF r = "introduction" THEN intro_quota
            ELSE IF r = "conclusion" THEN 0
            ELSE chapter_quota]

\* the largest power of two that is at most n
RECURSIVE Pow2Floor(_)
Pow2Floor(n) == IF n < 2 THEN 1 ELSE 2 * Pow2Floor(n \div 2)

\* line 164: math.ceil(chapter_quota * 0.34), a product of floats.  The float
\* 0.34 is 0.34 + 0.44 / 2^54, so the product is above the exact one by
\* 0.44 * chapter_quota / 2^54, which shows only where the exact product is an
\* integer n (chapter_quota a multiple of 50) and the excess is more than half
\* the gap between n and the next float, 2^k / 2^53 for 2^k <= n < 2^(k+1):
\* there the product is rounded to the float above n and its ceiling is n + 1
\* (150 -> 52, 300 -> 103, 350 -> 120).
SubsectionMax(chapter_quota) ==
    LET n == CeilDiv(chapter_quota * 34, 100)
    IN  IF /\ chapter_quota > 0
           /\ chapter_quota % 50 = 0
           /\ 11 * chapter_quota > 50 * Pow2Floor(n)
        THEN n + 1
        ELSE n

\* __init__ (citation_tracker is a dict: tracker_order lists its keys in the
\* order of insertion, which is the order in which a dict is iterated)
NewLedger(max_total, has_router) ==
    [citation_tracker    |-> [k \in {} |-> 0],
     tracker_order       |-> <<>>,
     next_citation_num   |-> 1,
     max_total_citations |-> max_total,
     chapter_quotas      |-> ChapterQuotas(max_total),
     chapter_used        |-> [r \in Regions |-> 0],
     current_chapter     |-> "introduction",
     current_subsection  |-> 0,
     subsection_used     |-> 0,
     has_router          |-> has_router,
     pool_used           |-> {}]

\* f'chapter_{chapter_idx + 1}'
ChapterName(chapter_idx) ==
    CASE chapter_idx = 0 -> "chapter_1"
      [] chapter_idx = 1 -> "chapter_2"
      [] chapter_idx = 2 -> "chapter_3"

\* set_current_section(section_type, chapter_idx, subsection_idx)
SetCurrentSection(st, section_type, chapter_idx, subsection_idx) ==
    LET chapter == CASE section_type = "introduction" -> "introduction"
                     [] section_type = "chapter"      -> ChapterName(chapter_idx)
                     [] section_type = "conclusion"   -> "conclusion"
                     [] OTHER                         -> st.current_chapter
    IN  IF subsection_idx # st.current_subsection
        THEN [st EXCEPT !.current_chapter = chapter,
                        !.current_subsection = subsection_idx,
                        !.subsection_used = 0]
        ELSE [st EXCEPT !.current_chapter = chapter]

\* SemanticRetriever.get_raw_candidates: the records not marked used, in the
\* order of their similarity to the query (any order), as positions in Pool
IsRawCandidates(st, raw) ==
    /\ raw \in [1..(Len(Pool) - Cardinality(st.pool_used)) -> 1..Len(Pool)]
    /\ \A i \in DOMAIN raw : raw[i] \notin st.pool_used
    /\ \A i, j \in DOMAIN raw : i # j => raw[i] # raw[j]

\* lit['authors'].split(',')[0].strip()
FirstAuthor(authors) == Strip(Split(authors, ",")[1])

\* _diverse_selection, first pass, from candidate number i on
RECURSIVE DiversePass1(_, _, _, _, _, _)
DiversePass1(candidates, target_num, i, selected, used_authors, used_years) ==
    IF i > Len(candidates) THEN selected
    ELSE LET lit    == Pool[candidates[i]]
             author == FirstAuthor(lit.authors)
         IN  IF author \notin used_authors \/ lit.year \notin used_years
             THEN IF Len(selected) + 1 >= target_num
                  THEN Append(selected, candidates[i])
                  ELSE DiversePass1(candidates, target_num, i + 1,
                                    Append(selected, candidates[i]),
                                    used_authors \cup {author},
                                    used_years \cup {lit.year})
             ELSE DiversePass1(candidates, target_num, i + 1, selected,
                               used_authors, used_years)

\* _diverse_selection, second pass, from candidate number i on
RECURSIVE DiversePass2(_, _, _, _)
DiversePass2(candidates, target_num, i, selected) ==
    IF i > Len(candidates) THEN selected
    ELSE IF \E k \in DOMAIN selected : selected[k] = candidates[i]
         THEN DiversePass2(candidates, target_num, i + 1, selected)
         ELSE IF Len(selected) + 1 >= target_num
              THEN Append(selected, candidates[i])
              ELSE DiversePass2(candidates, target_num, i + 1,
                                Append(selected, candidates[i]))

\* a variant that selects every candidate
DiverseSelection_All(candidates, target_num) == candidates

\* _diverse_selection(candidates, target_num)
DiverseSelection(candidates, target_num) ==
    IF Len(candidates) <= target_num THEN candidates
    ELSE LET first == DiversePass1(candidates, target_num, 1, <<>>, {}, {})
         IN  IF Len(first) < target_num
             THEN DiversePass2(candidates, target_num, 1, first)
             ELSE first

\* lines 158-174: the triple gate
CanAdd(st) ==
    LET chapter_quota        == st.chapter_quotas[st.current_chapter]
        chapter_remaining    == chapter_quota - st.chapter_used[st.current_chapter]
        subsection_remaining == SubsectionMax(chapter_quota) - st.subsection_used
        total_remaining      == st.max_total_citations
                                  - Cardinality(DOMAIN st.citation_tracker)
    IN  chapter_remaining > 0 /\ subsection_remaining > 0 /\ total_remaining > 0

\* line 203: the loop ends before this candidate because the call's target of
\* new citations is met
TargetMet(new_added, target_new) == new_added >= target_new /\ target_new > 0

\* lines 201-230: "for lit_info in selected" from candidate number i on, on
\* w = [ledger, citation_nums, used_lits, new_added]
RECURSIVE AssignLoop(_, _, _, _)
AssignLoop(w, selected, target_new, i) ==
    IF i > Len(selected) THEN w
    ELSE IF TargetMet(w.new_added, target_new) THEN w
    ELSE IF Cardinality(DOMAIN w.ledger.citation_tracker)
              >= w.ledger.max_total_citations THEN w
    ELSE LET st     == w.ledger
             lit_id == Pool[selected[i]].id
         IN  IF lit_id \in DOMAIN st.citation_tracker
             THEN AssignLoop(w, selected, target_new, i + 1)
             ELSE AssignLoop(
                    [ledger |->
                       [st EXCEPT
                          !.citation_tracker =
                              [k \in DOMAIN st.citation_tracker \cup {lit_id} |->
                                  IF k = lit_id THEN st.next_citation_num
                                  ELSE st.citation_tracker[k]],
                          !.tracker_order = Append(st.tracker_order, lit_id),
                          !.next_citation_num = st.next_citation_num + 1,
                          !.chapter_used[st.current_chapter] =
                              st.chapter_used[st.current_chapter] + 1,
                          !.subsection_used = st.subsection_used + 1,
                          !.pool_used = st.pool_used \cup {selected[i]}],
                     citation_nums |-> Append(w.citation_nums, st.next_citation_num),
                     used_lits     |-> Append(w.used_lits, selected[i]),
                     new_added     |-> w.new_added + 1],
                    selected, target_new, i + 1)

\* random.sample(existing_nums, min(2, len(existing_nums))): the numbers of
\* distinct entries, drawn by the keys in reuse_keys
IsReuseKeys(st, reuse_keys) ==
    LET n == Cardinality(DOMAIN st.citation_tracker)
    IN  /\ reuse_keys \in [1..(IF n < 2 THEN n ELSE 2) -> DOMAIN st.citation_tracker]
        /\ \A i, j \in DOMAIN reuse_keys : i # j => reuse_keys[i] # reuse_keys[j]

\* generate_sentence_with_citations(sentence_skeleton, query): the ledger after
\* the call, the numbers of the markers put in the sentence, and used_lits.
\* raw_candidates is the retriever's answer, llm_pick the position the
\* selection collaborator settles on, reuse_keys the draw of random.sample.
GenerateSentenceWithCitations(st, raw_candidates, llm_pick, reuse_keys) ==
    LET target_new == IF CanAdd(st) THEN 1 ELSE 0
        selected   == IF st.has_router /\ Len(raw_candidates) > 1
                      THEN <<raw_candidates[llm_pick]>>
                      ELSE DiverseSelection(raw_candidates,
                                            IF target_new > 1 THEN target_new ELSE 1)
        w          == AssignLoop([ledger |-> st, citation_nums |-> <<>>,
                                  used_lits |-> <<>>, new_added |-> 0],
                                 selected, target_new, 1)
        reuse      == w.citation_nums = <<>> /\ DOMAIN w.ledger.citation_tracker # {}
    IN  IF raw_candidates = <<>>
        THEN [ledger |-> st, citation_nums |-> <<>>, used_lits |-> <<>>]
        ELSE [ledger        |-> w.ledger,
              citation_nums |-> IF reuse
                                THEN [i \in DOMAIN reuse_keys |->
                                        w.ledger.citation_tracker[reuse_keys[i]]]
                                ELSE w.citation_nums,
              used_lits     |-> w.used_lits]

\* int(d) for a string of digits
RECURSIVE ToInt(_)
ToInt(d) ==
    IF d = "" THEN 0
    ELSE 10 * ToInt(SubSeq(d, 1, Len(d) - 1))
           + (CHOOSE n \in 0..9 : Ch("0123456789", n + 1) = Ch(d, Len(d)))

\* the numbers of the [N] markers of a text
CitationNumbers(text) == { ToInt(d) : d \in CitationRefs(text) }

SetMax(S) == CHOOSE x \in S : \A y \in S : y <= x

TrackerNumbers(st) == { st.citation_tracker[k] : k \in DOMAIN st.citation_tracker }

\* lines 403-411: what sync_with_text does to the entries unused in the text
SyncTracker_RemovesUnused(st, unused_in_text) ==
    [k \in { x \in DOMAIN st.citation_tracker :
               st.citation_tracker[x] \notin unused_in_text } |->
        st.citation_tracker[k]]

SyncTracker(st, unused_in_text) == st.citation_tracker

\* sync_with_text(paper_text): the ledger after the call and the report
SyncWithText(st, paper_text) ==
    LET text_citation_nums == CitationNumbers(paper_text)
        tracker_nums       == TrackerNumbers(st)
        missing_in_tracker == text_citation_nums \ tracker_nums
        unused_in_text     == tracker_nums \ text_citation_nums
    IN  [ledger |->
            [st EXCEPT
               !.citation_tracker = SyncTracker(st, unused_in_text),
               !.next_citation_num = IF text_citation_nums # {}
                                     THEN SetMax(text_citation_nums) + 1
                                     ELSE st.next_citation_num],
         report |-> [text_citations    |-> text_citation_nums,
                     tracker_citations |-> tracker_nums,
                     matched           |-> text_citation_nums \cap tracker_nums,
                     missing           |-> missing_in_tracker,
                     removed           |-> unused_in_text]]

\* str(n) for a natural number
RECURSIVE ToStr(_)
ToStr(n) ==
    IF n < 10 THEN Ch("0123456789", n + 1)
    ELSE ToStr(n \div 10) \o Ch("0123456789", (n % 10) + 1)

\* sorted(items, key=number), from the keys in insertion order: equal numbers
\* keep the order of insertion.  One key is put into a sorted list of keys.
RECURSIVE InsertByNumber(_, _, _)
InsertByNumber(st, sorted_keys, key) ==
    IF sorted_keys = <<>> THEN <<key>>
    ELSE IF st.citation_tracker[Head(sorted_keys)] <= st.citation_tracker[key]
         THEN <<Head(sorted_keys)>> \o InsertByNumber(st, Tail(sorted_keys), key)
         ELSE <<key>> \o sorted_keys

\* lines 308-311: the keys of the first n entries, sorted by citation number
RECURSIVE SortedItems(_, _)
SortedItems(st, n) ==
    IF n = 0 THEN <<>>
    ELSE InsertByNumber(st, SortedItems(st, n - 1), st.tracker_order[n])

\* line 317: next(l for l in self.pool if l['id'] == lit_id)
PoolRecordOf(lit_id) ==
    Pool[CHOOSE i \in DOMAIN Pool :
            Pool[i].id = lit_id /\ \A j \in 1..(i - 1) : Pool[j].id # lit_id]

\* line 321: re.sub(r'^\[\d+\]\s*', '', full_cit)
CleanCitation(full_cit) ==
    LET digits == DigitRun(full_cit, 2)
    IN  IF Ch(full_cit, 1) = "[" /\ digits >= 1 /\ Ch(full_cit, 2 + digits) = "]"
        THEN LET rest == Suffix(full_cit, 2 + digits)
             IN  Suffix(rest, LeadWs(rest))
        ELSE full_cit

\* line 324: the entry of one ledger item
ReferenceEntry(st, lit_id) ==
    "[" \o ToStr(st.citation_tracker[lit_id]) \o "] "
        \o CleanCitation(PoolRecordOf(lit_id).full_citation)

\* lines 313-325: the list of entries
ReferenceEntries(st) ==
    LET sorted_items == SortedItems(st, Len(st.tracker_order))
    IN  [i \in DOMAIN sorted_items |-> ReferenceEntry(st, sorted_items[i])]

\* generate_reference_list()
GenerateReferenceList(st) ==
    IF DOMAIN st.citation_tracker = {} THEN ""
    ELSE Join(ReferenceEntries(st), "\n\n")

(***************************************************************************)
(* The score recognizer: ExpertReviewSystem._extract_comprehensive_score.  *)
(*                                                                         *)
(* Stand-ins of the CJK characters its patterns name, one for one:         *)
(*     "zhpf" the four characters of "comprehensive score"; "f" alone is   *)
(*            the unit that may follow a number                            *)
(*     "tf"   the two characters of "total score" (its second is "f")      *)
(*     "xj"   the two characters of "subtotal"                             *)
(*     "gf"   the two characters of "score obtained" (its second is "f")   *)
(*     "abd", "lks", "uqs", "rns"  the names of the four dimensions        *)
(*     "c"    the full-width colon,  "~" the sign "almost equal"           *)
(* A score is a Python float.                                              *)
(***************************************************************************)

\* the length of the run of whitespace from position i
RECURSIVE WsRun(_, _)
WsRun(s, i) ==
    IF i > Len(s) \/ ~IsWs(Ch(s, i)) THEN 0 ELSE 1 + WsRun(s, i + 1)

\* the position after the match of \s* at position i
SkipWs(s, i) == i + WsRun(s, i)

\* the position after the match of \*?\*? at position i
SkipStars(s, i) ==
    IF Ch(s, i) # "*" THEN i ELSE IF Ch(s, i + 1) # "*" THEN i + 1 ELSE i + 2

\* the length of \d+(?:\.\d+)? with d digits before the point and e after it
FractionLen(d, e) == IF e > 0 THEN d + 1 + e ELSE d

\* the length of \d+(?:\.\d+)? at position i, its \d+ being d characters long
WithFraction(s, i, d) ==
    IF d = 0 THEN 0
    ELSE IF Ch(s, i + d) = "." THEN FractionLen(d, DigitRun(s, i + d + 1))
    ELSE d

\* the length of the match of \d+(?:\.\d+)? at position i, 0 if none
NumberLen(s, i) == WithFraction(s, i, DigitRun(s, i))

(***************************************************************************)
(* Python's float: an IEEE 754 double.  A positive float is the record of   *)
(* its binary digits m, from the first 1 to the last 1, and of the power of *)
(* two e of the first of them: [m |-> <<1, 1, 1, 1>>, e |-> 5] is 60.0 and  *)
(* [m |-> <<1>>, e |-> -1] is 0.5.  No score of the program is negative.    *)
(***************************************************************************)

\* the binary digits a double keeps, and the powers of two of its first digit
Significand == 53
MinExponent == 0 - 1022
MaxExponent == 1023

Zero == [m |-> <<>>, e |-> 0]
Inf  == [m |-> <<1>>, e |-> MaxExponent + 1]

\* the digits of a text of digits, as numbers
DigitsOf(d) ==
    [i \in 1..Len(d) |-> CHOOSE n \in 0..9 : Ch("0123456789", n + 1) = Ch(d, i)]

AllZero(ds) == \A i \in 1..Len(ds) : ds[i] = 0

\* the decimal number ds divided by two (its last digit tells the remainder)
Halve(ds) ==
    [i \in 1..Len(ds) |->
        ((IF i > 1 THEN ds[i - 1] % 2 ELSE 0) * 10 + ds[i]) \div 2]

\* the decimal fraction 0.ds doubled, without the unit it may pass (it passes
\* one when its first digit is 5 or more)
Double(ds) ==
    [i \in 1..Len(ds) |->
        (2 * ds[i] + (IF i < Len(ds) /\ ds[i + 1] >= 5 THEN 1 ELSE 0)) % 10]

\* the binary digits of the whole number ds, from its first 1
RECURSIVE IntBits(_)
IntBits(ds) ==
    IF AllZero(ds) THEN <<>>
    ELSE Append(IntBits(Halve(ds)), ds[Len(ds)] % 2)

\* the binary digits of a number continued into its fraction 0.ds, until
\* nothing is left of the fraction or there are more digits than a double
\* keeps: bits are the digits from the first 1, zeros counts the zeros that
\* stand between the point and the first 1 of a number below 1, sticky says
\* that something of the fraction is left
RECURSIVE Expand(_, _, _)
Expand(bits, zeros, ds) ==
    IF \/ AllZero(ds)
       \/ Len(bits) > Significand
       \/ zeros > Significand - MinExponent
    THEN [bits |-> bits, zeros |-> zeros, sticky |-> ~AllZero(ds)]
    ELSE IF ds[1] >= 5 THEN Expand(Append(bits, 1), zeros, Double(ds))
    ELSE IF bits = <<>> THEN Expand(bits, zeros + 1, Double(ds))
    ELSE Expand(Append(bits, 0), zeros, Double(ds))

\* binary digits without the zeros at their end
Trim(bits) ==
    SubSeq(bits, 1, SetMax({0} \cup { i \in 1..Len(bits) : bits[i] = 1 }))

\* the float one step of the last digit above the digits bits
Increment(bits, e) ==
    IF \A i \in 1..Len(bits) : bits[i] = 1 THEN [m |-> <<1>>, e |-> e + 1]
    ELSE LET k == SetMax({ i \in 1..Len(bits) : bits[i] = 0 })
         IN  [m |-> Trim([i \in 1..Len(bits) |->
                            IF i < k THEN bits[i] ELSE IF i = k THEN 1 ELSE 0]),
              e |-> e]

\* the double nearest to the number with the binary digits bits, the first of
\* them a 1 of the power of two e, and with something more below them if
\* sticky: round to nearest, ties to even, on the 53 digits of a double, or on
\* the fewer digits left above 2^-1074 for a number below 2^-1022; a number
\* of 2^1024 or more, before or after the rounding, is inf
Rounded(bits, e, sticky) ==
    LET p == IF e >= MinExponent THEN Significand
             ELSE Significand - (MinExponent - e)
    IN  IF bits = <<>> \/ p < 0 THEN Zero
        ELSE IF e > MaxExponent THEN Inf
        ELSE IF Len(bits) <= p THEN [m |-> Trim(bits), e |-> e]
        ELSE LET kept == SubSeq(bits, 1, p)
                 half == bits[p + 1] = 1
                 more == sticky \/ \E i \in (p + 2)..Len(bits) : bits[i] = 1
                 odd  == p > 0 /\ bits[p] = 1
                 r    == IF half /\ (more \/ odd) THEN Increment(kept, e)
                         ELSE [m |-> Trim(kept), e |-> e]
             IN  IF r.m = <<>> THEN Zero
                 ELSE IF r.e > MaxExponent THEN Inf
                 ELSE r

\* float(m) for a text m of d digits, and after them nothing or a point and
\* further digits
FloatParts(m, d) ==
    LET whole == IntBits(DigitsOf(Prefix(m, d)))
        all   == Expand(whole, 0, DigitsOf(SubSeq(m, d + 2, Len(m))))
    IN  Rounded(all.bits,
                IF whole # <<>> THEN Len(whole) - 1 ELSE 0 - (all.zeros + 1),
                all.sticky)

\* float(m) for a match m of \d+(?:\.\d+)?
FloatOf(m) == FloatParts(m, DigitRun(m, 1))

\* the binary digit of a float at the power of two pos
BitAt(x, pos) ==
    IF x.e - Len(x.m) < pos /\ pos <= x.e THEN x.m[x.e - pos + 1] ELSE 0

\* the binary digits of a + b from the power of two pos up to top and the
\* digit above it that a carry makes, carry being what comes from below pos
RECURSIVE AddUp(_, _, _, _, _)
AddUp(a, b, pos, top, carry) ==
    IF pos > top THEN IF carry = 1 THEN <<1>> ELSE <<>>
    ELSE IF BitAt(a, pos) + BitAt(b, pos) + carry >= 2
    THEN Append(AddUp(a, b, pos + 1, top, 1),
                BitAt(a, pos) + BitAt(b, pos) + carry - 2)
    ELSE Append(AddUp(a, b, pos + 1, top, 0),
                BitAt(a, pos) + BitAt(b, pos) + carry)

\* a + b: the exact sum, rounded to a double (a float more than 2^53 times
\* the other is its own sum with it)
FloatAdd(a, b) ==
    IF a.m = <<>> THEN b
    ELSE IF b.m = <<>> THEN a
    ELSE IF a = Inf \/ b = Inf THEN Inf
    ELSE IF a.e - b.e > Significand THEN a
    ELSE IF b.e - a.e > Significand THEN b
    ELSE LET top == IF a.e > b.e THEN a.e ELSE b.e
             low == IF a.e - Len(a.m) < b.e - Len(b.m)
                    THEN a.e - Len(a.m) + 1
                    ELSE b.e - Len(b.m) + 1
             sum == AddUp(a, b, low, top, 0)
         IN  Rounded(sum, low + Len(sum) - 1, FALSE)

\* a < b and a <= b
FloatLess(a, b) ==
    IF b.m = <<>> THEN FALSE
    ELSE IF a.m = <<>> THEN TRUE
    ELSE IF a.e # b.e THEN a.e < b.e
    ELSE \E pos \in 1..Len(b.m) :
            /\ b.m[pos] = 1
            /\ BitAt(a, a.e - pos + 1) = 0
            /\ \A before \in 1..(pos - 1) :
                 BitAt(a, a.e - before + 1) = b.m[before]

FloatLeq(a, b) == a = b \/ FloatLess(a, b)

\* float(n) for a whole number n >= 0
Float(n) == FloatOf(ToStr(n))

\* sum(q) and x1 + x2 + ...: the floats of q added one after the other, from
\* the left, to 0
RECURSIVE FloatSum(_)
FloatSum(q) ==
    IF q = <<>> THEN Zero
    ELSE FloatAdd(FloatSum(SubSeq(q, 1, Len(q) - 1)), q[Len(q)])

\* the literal s[i:i+len(lit)] == lit
LitAt(s, i, lit) ==
    i + Len(lit) - 1 <= Len(s) /\ SubSeq(s, i, i + Len(lit) - 1) = lit

\* [:：]
IsColon(ch) == ch \in {":", "c"}

NoMatch == [start |-> 0, len |-> 0, end |-> 0]

\* a capture of n characters at position d that the literal tail follows
CaptureThen(s, d, n, tail) ==
    IF n > 0 /\ LitAt(s, d + n, tail)
    THEN [start |-> d, len |-> n, end |-> d + n + Len(tail)]
    ELSE NoMatch

\* (number) followed by the literal tail, at position d
NumberThen(s, d, tail) == CaptureThen(s, d, NumberLen(s, d), tail)

\* [:：]\s*(number) followed by the literal tail, the colon at position i
ColonNumber(s, i, tail) ==
    IF IsColon(Ch(s, i)) THEN NumberThen(s, SkipWs(s, i + 1), tail) ELSE NoMatch

\* the least member of a non-empty set of numbers
SetMin(S) == CHOOSE x \in S : \A y \in S : x <= y

MinOrZero(S) == IF S = {} THEN 0 ELSE SetMin(S)

\* the first position e >= i with [=≈]\s*\d at e and no line break between i
\* and e, 0 if none
EqualsOnLine(s, i) ==
    MinOrZero({ e \in i..Len(s) :
                  /\ Ch(s, e) \in {"=", "~"}
                  /\ NumberLen(s, SkipWs(s, e + 1)) > 0
                  /\ \A j \in i..(e - 1) : Ch(s, j) # "\n" })

\* [=≈]\s*(number), the sign at position e (0: no sign)
AfterEquals(s, e) == IF e > 0 THEN NumberThen(s, SkipWs(s, e + 1), "") ELSE NoMatch

\* the match of one recognizer pattern that starts at position i.  The
\* optional asterisks before the name in pattern 1 move the start of a match
\* only by themselves, so the name's position orders the matches.
MatchAt(pattern, s, i) ==
    CASE pattern = 1 ->
           \* \*?\*?zhpf[:：]\s*\*?\*?\s*(number)/100
           IF LitAt(s, i, "zhpf") /\ IsColon(Ch(s, i + 4))
           THEN NumberThen(s, SkipWs(s, SkipStars(s, SkipWs(s, i + 5))), "/100")
           ELSE NoMatch
      [] pattern = 2 ->
           \* zhpf[:：]\s*(number)(?:f|/100)?
           IF LitAt(s, i, "zhpf") THEN ColonNumber(s, i + 4, "") ELSE NoMatch
      [] pattern = 3 ->
           \* zhpf[:：].*?[=≈]\s*(number)
           IF LitAt(s, i, "zhpf") /\ IsColon(Ch(s, i + 4))
           THEN AfterEquals(s, EqualsOnLine(s, i + 5))
           ELSE NoMatch
      [] pattern = 4 ->
           \* tf[:：]\s*(number)/100
           IF LitAt(s, i, "tf") THEN ColonNumber(s, i + 2, "/100") ELSE NoMatch
      [] pattern = 5 ->
           \* (\d{1,3}(?:\.\d+)?)/100
           IF DigitRun(s, i) \in 1..3 THEN NumberThen(s, i, "/100") ELSE NoMatch
      [] pattern = 6 ->
           \* (?:abd|lks|uqs|rns)gf[:：]\s*(number)/25
           IF (\E name \in {"abd", "lks", "uqs", "rns"} : LitAt(s, i, name))
              /\ LitAt(s, i + 3, "gf")
           THEN ColonNumber(s, i + 5, "/25") ELSE NoMatch
      [] pattern = 7 ->
           \* xj[:：]\s*(number)/25
           IF LitAt(s, i, "xj") THEN ColonNumber(s, i + 2, "/25") ELSE NoMatch
      [] pattern = 8 ->
           \* (number)/6\.25, the fallback of _extract_score
           IF IsDigit(Ch(s, i)) THEN NumberThen(s, i, "/6.25") ELSE NoMatch

Captured(s, m) == FloatOf(SubSeq(s, m.start, m.start + m.len - 1))

\* the matches of a pattern that start at or after position i
MatchesFrom(pattern, s, i) ==
    { MatchAt(pattern, s, k) : k \in i..Len(s) } \ {NoMatch}

\* the leftmost of a non-empty set of matches
Leftmost(matches) == CHOOSE m \in matches : \A o \in matches : m.start <= o.start

\* the capture of the leftmost of the matches, as a sequence of no or one score
FirstCapture(s, matches) ==
    IF matches = {} THEN <<>> ELSE <<Captured(s, Leftmost(matches))>>

\* re.search: the capture of the leftmost match at or after i
Search(pattern, s, i) == FirstCapture(s, MatchesFrom(pattern, s, i))

\* re.findall: the captures of the matches from left to right, a match
\* starting where the one before it ended or later
RECURSIVE FindAll(_, _, _)
CapturesFrom(pattern, s, m) == <<Captured(s, m)>> \o FindAll(pattern, s, m.end)

CapturesOf(pattern, s, matches) ==
    IF matches = {} THEN <<>> ELSE CapturesFrom(pattern, s, Leftmost(matches))

FindAll(pattern, s, i) == CapturesOf(pattern, s, MatchesFrom(pattern, s, i))

Pattern2Accepts_Any(score) == TRUE

\* line 1038: the value of pattern 2 counts only on the scale of 100
Pattern2Accepts(score) == FloatLeq(score, Float(100))

\* what each step of the function hands on: no or one score
IfAccepted(m) == IF m # <<>> /\ Pattern2Accepts(m[1]) THEN m ELSE <<>>
LastOf(matches) == IF matches = <<>> THEN <<>> ELSE <<matches[Len(matches)]>>
SumIfFour(dimension_scores) ==
    IF Len(dimension_scores) = 4 THEN <<FloatSum(dimension_scores)>> ELSE <<>>
SumOfFirstFour(expert_scores) ==
    IF Len(expert_scores) >= 4 THEN <<FloatSum(SubSeq(expert_scores, 1, 4))>>
    ELSE <<>>

\* _extract_comprehensive_score(integrated_feedback): the
\* first score that the steps give in the order of the source, the default
\* after them
ExtractComprehensiveScore(integrated_feedback) ==
    Head(   Search(1, integrated_feedback, 1)
         \o IfAccepted(Search(2, integrated_feedback, 1))
         \o Search(3, integrated_feedback, 1)
         \o Search(4, integrated_feedback, 1)
         \o LastOf(FindAll(5, integrated_feedback, 1))
         \o SumIfFour(FindAll(6, integrated_feedback, 1))
         \o SumOfFirstFour(FindAll(7, integrated_feedback, 1))
         \o <<Float(DefaultScore)>> )

\* _extract_score, lines 1011-1021: the subtotal if one is found, else the sum
\* of the item scores found, else 0
SubtotalOrSum(subtotal, scores) ==
    IF subtotal # <<>> THEN subtotal[1]
    ELSE IF scores # <<>> THEN FloatSum(scores)
    ELSE Zero

ExtractScore(feedback) ==
    SubtotalOrSum(Search(7, feedback, 1), FindAll(8, feedback, 1))

\* lines 146-150: the sum of the four experts' scores takes the place of the
\* extracted score when that is the default and the sum is positive
DirectSumIfDefault(comprehensive_score, direct_sum) ==
    IF comprehensive_score = Float(DefaultScore) /\ FloatLess(Zero, direct_sum)
    THEN direct_sum
    ELSE comprehensive_score

\* the integrated score of a round, lines 114-152
RoundScore(panel, integrated_result) ==
    DirectSumIfDefault(
        ExtractComprehensiveScore(integrated_result),
        FloatSum([i \in 1..4 |-> ExtractScore(panel[i])]))

(***************************************************************************)
(* The Task Planner's parser: the loop of _task_decomposer over the lines  *)
(* of the collaborator's response.  "B" stands for the left bracket of a   *)
(* bracketed title (U+3010).                                               *)
(***************************************************************************)

SkipsLine_OnlyEmpty(line) == line = ""

\* line 496: an empty line, a '#' line and a bracketed title are passed over
SkipsLine(line) == line = "" \/ StartsWith(line, "#") \/ StartsWith(line, "B")

\* lines 499-506: the task of a line's parts, numbered after the tasks so far
TaskOfParts(parts, tasks) ==
    [task_id         |-> Len(tasks) + 1,
     problem         |-> Strip(parts[1]),
     requirement     |-> Strip(parts[2]),
     keywords        |-> IF Len(parts) > 2 THEN Strip(parts[3]) ELSE "",
     paragraph_index |-> NoIndex]

\* lines 494-507: the loop over the lines
RECURSIVE ParseTaskLines(_, _)
ParseTaskLines(lines, tasks) ==
    IF lines = <<>> THEN tasks
    ELSE LET line  == Strip(Head(lines))
             parts == Split(line, "|")
         IN  IF SkipsLine(line) THEN ParseTaskLines(Tail(lines), tasks)
             ELSE IF Len(parts) >= 2
                  THEN ParseTaskLines(Tail(lines),
                                      Append(tasks, TaskOfParts(parts, tasks)))
             ELSE ParseTaskLines(Tail(lines), tasks)

\* lines 511-516: the task that stands in for an empty list, its two texts
\* shortened as in TaskGeneric
GenericTask ==
    [task_id |-> 1, problem |-> "overall", requirement |-> "revise",
     keywords |-> "", paragraph_index |-> NoIndex]

\* _task_decomposer, from the collaborator's response on
TaskDecomposer(response) ==
    LET tasks == ParseTaskLines(Split(Strip(response), "\n"), <<>>)
    IN  IF tasks = <<>> THEN <<GenericTask>> ELSE tasks

(***************************************************************************)
(* The texts the two recognizers are run on.                               *)
(***************************************************************************)

\* the longest synthesis text, in fragments, and the longest response, in lines
MaxFragments == 2
MaxLines == 2

ScoreFragments ==
    {"**zhpf: 85.5/100**", "zhpfc75f", "zhpf: 150", "zhpf: 0/100",
     "zhpf: (20+57) = 77", "tf: 80/100", "( 70/100 )", "1234/100",
     "abdgf: 20/25 lksgf: 21/25 uqsgf: 22/25 rnsgf: 23/25", "abdgf: 9/25",
     "xj: 15/25 xj: 16/25 xj:17/25 xj: 18.5/25", "xj: 1/25", "-- --",
     "zhpf: 100.001"}

SynthesisTexts == { Join(q, "\n") : q \in SeqsUpTo(ScoreFragments, MaxFragments) }

PlannerLines ==
    {"vague terms|define them|Alpha", " weak logic | add steps ", "a|b|c|d",
     "# title|of the|list", "Btasks| below", "no separator here", "  ", "|"}

PlannerResponses == { Join(q, "\n") : q \in SeqsUpTo(PlannerLines, MaxLines) }

\* no score yet
NoScore == [m |-> <<>>, e |-> 0 - 1]

\* the feedback texts of the four experts of a round, the synthesis texts of
\* the fifth, and the panels of four
ExpertFeedbacks ==
    {"**xj: 20.5/25**", "xj: 15/25", "3/6.25 4.5/6.25 5/6.25 6/6.25",
     "xj: 40/25", "no subtotal", "0.1/6.25 0.2/6.25"}

RoundSyntheses ==
    {"zhpf: 60/100", "**zhpf: 85.5/100**", "1234/100", "zhpf: 150", "-- --",
     "zhpf: 60.001/100"}

ExpertPanels == [1..4 -> ExpertFeedbacks]

ReviewIdle ==
    rev = [op |-> "idle", input |-> "", panel |-> <<>>, done |-> FALSE,
           score |-> NoScore, tasks |-> <<>>]

(***************************************************************************)
(* The provider call: ModelRouter._call_provider (core/model_router.py).   *)
(* Time is in whole seconds.                                               *)
(***************************************************************************)

\* lines 310-311: the attempts of one call and the first backoff wait
max_retries == 3
retry_delay == 30

\* line 365: the first wait after an HTTP 429 without a Retry-After header
rate_limit_delay == 60

\* str.endswith
EndsWith(s, p) == Len(s) >= Len(p) /\ SubSeq(s, Len(s) - Len(p) + 1, Len(s)) = p

\* str.rstrip('/')
RECURSIVE RstripSlash(_)
RstripSlash(s) ==
    IF s # "" /\ Ch(s, Len(s)) = "/" THEN RstripSlash(SubSeq(s, 1, Len(s) - 1))
    ELSE s

\* the providers of the router: ProviderConfig(name, base_url, ...,
\* rate_limit_seconds=...), which keeps base_url.rstrip('/')
Provider(name, base_url, rate_limit_seconds) ==
    [name |-> name, base_url |-> RstripSlash(base_url),
     rate_limit_seconds |-> rate_limit_seconds]

Providers ==
    {Provider("alpha", "https://a.example/v1", 2),
     Provider("beta", "https://b.example/v1/chat/completions/", 3),
     Provider("gamma", "https://c.example", 0)}

ProviderNames == { p.name : p \in Providers }

\* _init_providers: self.providers, the providers under their names
InitProviders == [n \in ProviderNames |-> CHOOSE p \in Providers : p.name = n]

\* one keyword argument of an update_provider_config call: an attribute and
\* its new value, a text or a number
Kwarg(key, text, number) == [key |-> key, text |-> text, number |-> number]

\* the names a caller of update_provider_config gives a provider: the names
\* of two registered providers and one that no provider is registered under
NewNames == {"alpha", "beta", "delta"}

\* the keyword arguments of the update_provider_config calls a client of the
\* class makes, each call's in the order they are given.  Nothing in src/
\* calls update_provider_config: the program's own runs make none of them
ConfigUpdates ==
    {<<Kwarg("rate_limit_seconds", "", 0)>>,
     <<Kwarg("rate_limit_seconds", "", 10)>>,
     <<Kwarg("base_url", "https://a.example/v1/chat/completions/", 0)>>,
     \* no attribute of a ProviderConfig
     <<Kwarg("colour", "red", 0)>>,
     <<Kwarg("rate_limit_seconds", "", 10), Kwarg("name", "beta", 0)>>,
     <<Kwarg("colour", "red", 0), Kwarg("rate_limit_seconds", "", 0)>>}
      \cup { <<Kwarg("name", name, 0)>> : name \in NewNames }

\* the names _last_request_time may come to have a time under
TimerNames == { p.name : p \in Providers } \cup NewNames

\* lines 384-386: setattr(provider, key, value) if the provider has the
\* attribute; the value is stored as given, a base_url with its slashes
SetAttr(provider, kwarg) ==
    IF kwarg.key = "rate_limit_seconds"
    THEN [provider EXCEPT !.rate_limit_seconds = kwarg.number]
    ELSE IF kwarg.key = "name" THEN [provider EXCEPT !.name = kwarg.text]
    ELSE IF kwarg.key = "base_url" THEN [provider EXCEPT !.base_url = kwarg.text]
    ELSE provider

\* lines 383-386: "for key, value in kwargs.items()", one setattr after the
\* other
RECURSIVE UpdatedProvider(_, _)
UpdatedProvider(provider, kwargs) ==
    IF kwargs = <<>> THEN provider
    ELSE UpdatedProvider(SetAttr(provider, Head(kwargs)), Tail(kwargs))

\* lines 254-257: the function's "import re" runs only when the endpoint has
\* to be completed; the name re is local to the function, so without the
\* import it is unbound at line 336
ReIsBound(provider) ==
    ~EndsWith(RstripSlash(provider.base_url), "/chat/completions")

\* re.sub(r'<thinking>.*?</thinking>', '', result, flags=re.DOTALL)
RECURSIVE RemoveThinking(_)
RemoveThinking(s) ==
    LET open == FindFrom(s, "<thinking>", 1)
        close == IF open = 0 THEN 0 ELSE FindFrom(s, "</thinking>", open + 10)
    IN  IF close = 0 THEN s
        ELSE SubSeq(s, 1, open - 1) \o RemoveThinking(Suffix(s, close + 10))

\* the whitespace int() passes over at the two ends of its text: that of
\* str.isspace without the separators 0x1C to 0x1F, which the parser of the
\* interpreter does not count as space
IsIntWs(c) == IsWs(c) /\ c \notin {"", "", "", ""}

\* the text of int(s) without the whitespace around it
IntStrip(s) ==
    LET kept == { i \in 1..Len(s) : ~IsIntWs(Ch(s, i)) }
    IN  IF kept = {} THEN "" ELSE SubSeq(s, SetMin(kept), SetMax(kept))

\* the most digits int() converts (sys.get_int_max_str_digits() of the
\* interpreter); a text with more raises ValueError
MaxStrDigits == 4300

\* int(s) reads the text without the whitespace around it: an optional sign,
\* then digits, which single underscores may separate
IntSign(s) == IF Ch(IntStrip(s), 1) \in {"+", "-"} THEN 1 ELSE 0
IntDigits(s) == Suffix(IntStrip(s), IntSign(s))

\* int(s) succeeds
IsInt(s) ==
    LET b == IntDigits(s)
    IN  /\ b # ""
        /\ IsDigit(Ch(b, 1))
        /\ IsDigit(Ch(b, Len(b)))
        /\ \A i \in 1..Len(b) :
              \/ IsDigit(Ch(b, i))
              \/ Ch(b, i) = "_" /\ IsDigit(Ch(b, i - 1)) /\ IsDigit(Ch(b, i + 1))
        /\ Cardinality({ i \in 1..Len(b) : IsDigit(Ch(b, i)) }) <= MaxStrDigits

\* the text s without its underscores
RECURSIVE NoUnderscores(_)
NoUnderscores(s) ==
    IF Len(s) <= 1 THEN IF s = "_" THEN "" ELSE s
    ELSE NoUnderscores(SubSeq(s, 1, Len(s) \div 2))
           \o NoUnderscores(SubSeq(s, Len(s) \div 2 + 1, Len(s)))

\* int(s) where it succeeds.  A Python int has no width: the number is kept
\* as its decimal numeral, "-" if it is below 0 and then its digits from the
\* first other than 0, the underscores left out ("0" for 0)
IntText(s) ==
    LET b == IntDigits(s)
        significant == { i \in 1..Len(b) : Ch(b, i) \notin {"0", "_"} }
    IN  IF significant = {} THEN "0"
        ELSE (IF Ch(IntStrip(s), 1) = "-" THEN "-" ELSE "")
               \o NoUnderscores(SubSeq(b, SetMin(significant), Len(b)))

\* a > b for the numerals a and b of two numbers >= 0
NumeralAbove(a, b) ==
    \/ Len(a) > Len(b)
    \/ /\ Len(a) = Len(b)
       /\ \E i \in 1..Len(a) :
            /\ ToInt(Ch(a, i)) > ToInt(Ch(b, i))
            /\ SubSeq(a, 1, i - 1) = SubSeq(b, 1, i - 1)

\* the numeral of a + b for the numerals a and b of two numbers >= 0
NumeralAdd(a, b) ==
    LET n == (IF Len(a) > Len(b) THEN Len(a) ELSE Len(b)) + 1
        \* the digit of d at the power of ten pos
        At(d, pos) == IF pos < Len(d) THEN ToInt(Ch(d, Len(d) - pos)) ELSE 0
        carry[pos \in 0..n] ==
            IF pos = 0 THEN 0
            ELSE (At(a, pos - 1) + At(b, pos - 1) + carry[pos - 1]) \div 10
        sum == Join([i \in 1..n |->
                       ToStr((At(a, n - i) + At(b, n - i) + carry[n - i]) % 10)],
                    "")
    IN  IF Ch(sum, 1) = "0" THEN Suffix(sum, 1) ELSE sum

\* the longest time time.sleep keeps: 2^63 - 1 nanoseconds (the _PyTime_t of
\* the interpreter has 64 bits), which are 9223372036 seconds and 854775807
\* nanoseconds
SleepLimit == [seconds |-> "9223372036", nanos |-> 854775807]

\* time.sleep(seconds) for a whole number of seconds given as its numeral, on
\* a machine whose monotonic clock stands at monotonic seconds and nanos
\* nanoseconds: the class of the exception it raises, "" if it sleeps.  A
\* number of seconds that does not fit _PyTime_t, of either sign, raises
\* OverflowError; another number below 0 raises ValueError; the sleep is a
\* clock_nanosleep until the clock shows its time of now plus the seconds,
\* a sum in 64 bits that wraps around above 2^63 - 1 nanoseconds, and the
\* kernel refuses the time below 0 it is given then (EINVAL, OSError)
SleepRaises(seconds, monotonic, nanos) ==
    LET negative == Ch(seconds, 1) = "-"
        size     == Suffix(seconds, IF negative THEN 1 ELSE 0)
        deadline == NumeralAdd(size, ToStr(monotonic))
    IN  IF NumeralAbove(size, SleepLimit.seconds) THEN "OverflowError"
        ELSE IF negative THEN "ValueError"
        ELSE IF \/ NumeralAbove(deadline, SleepLimit.seconds)
                \/ deadline = SleepLimit.seconds /\ nanos > SleepLimit.nanos
        THEN "OSError"
        ELSE ""

RECURSIVE Pow2(_)
Pow2(n) == IF n = 0 THEN 1 ELSE 2 * Pow2(n - 1)

\* what one requests.post and the reading of its response can come to
Ok(content) == [kind |-> "ok", content |-> content, status |-> 200, retry_after |-> ""]
Fails(kind) == [kind |-> kind, content |-> "", status |-> 0, retry_after |-> ""]
HttpError(status, retry_after) ==
    [kind |-> "HTTPError", content |-> "", status |-> status,
     retry_after |-> retry_after]

Outcomes ==
    {Ok(" <thinking>plan</thinking> Answer. "),
     \* the response's content is null: re.sub raises TypeError
     Fails("NullContent"),
     Fails("ConnectionError"), Fails("Timeout"), Fails("ChunkedEncodingError"),
     HttpError(429, ""), HttpError(429, "7"), HttpError(429, "soon"),
     \* more seconds than time.sleep takes
     HttpError(429, "9223372037"),
     HttpError(500, "")}

NoText == "<none>"
NoError == [class |-> "", status |-> 0, provider |-> "", retry_count |-> 0]

\* an exception of requests or of the interpreter as the function lets it
\* pass: it has no provider attribute and no retry count
Raised(class, status) ==
    [class |-> class, status |-> status, provider |-> "", retry_count |-> 0]

\* lines 346-348 and 358: the failures that are tried again
Retries(outcome) ==
    \/ outcome.kind \in {"ConnectionError", "Timeout", "ChunkedEncodingError"}
    \/ outcome.kind = "HTTPError" /\ outcome.status = 429

\* what one attempt comes to; wait is the numeral of the seconds slept
Returning(text) == [does |-> "return", text |-> text, error |-> NoError, wait |-> "0"]
Raising(error)  == [does |-> "raise", text |-> NoText, error |-> error, wait |-> "0"]
Retrying(wait)  == [does |-> "retry", text |-> NoText, error |-> NoError, wait |-> wait]

\* lines 352 and 367: time.sleep(wait_time) inside the except clause, then the
\* next attempt; what the sleep raises leaves the function as it is, since no
\* except clause of the same try statement catches what another one raises
SleepThenRetry(wait_time, monotonic, nanos) ==
    IF SleepRaises(wait_time, monotonic, nanos) = "" THEN Retrying(wait_time)
    ELSE Raising(Raised(SleepRaises(wait_time, monotonic, nanos), 0))

\* lines 313-376: the body of "for attempt in range(max_retries)", attempt
\* counted from 0, on the outcome of the request, the machine's monotonic
\* clock standing at monotonic seconds and nanos nanoseconds
AttemptResult(provider, outcome, attempt, monotonic, nanos) ==
    IF outcome.kind = "ok"
    THEN IF ReIsBound(provider)
         THEN Returning(Strip(RemoveThinking(outcome.content)))
         ELSE Raising(Raised("UnboundLocalError", 0))
    ELSE IF outcome.kind = "NullContent"
    THEN Raising(Raised(IF ReIsBound(provider) THEN "TypeError"
                        ELSE "UnboundLocalError", 0))
    ELSE IF ~Retries(outcome) \/ attempt >= max_retries - 1
    THEN Raising(Raised(outcome.kind, outcome.status))
    ELSE IF outcome.kind # "HTTPError"
    THEN SleepThenRetry(ToStr(retry_delay * Pow2(attempt)), monotonic, nanos)
    ELSE IF outcome.retry_after = ""
    THEN SleepThenRetry(ToStr(rate_limit_delay * Pow2(attempt)), monotonic, nanos)
    \* line 363: int(retry_after) raises ValueError on a text that is no
    \* integer
    ELSE IF ~IsInt(outcome.retry_after)
    THEN Raising(Raised("ValueError", 0))
    ELSE SleepThenRetry(IntText(outcome.retry_after), monotonic, nanos)

\* a variant with one timer for all providers
CooldownWait_SharedTimer(provider, last_request_time, now) ==
    LET last_time == SetMax({ last_request_time[n] : n \in DOMAIN last_request_time })
    IN  IF provider.rate_limit_seconds > 0
           /\ now - last_time < provider.rate_limit_seconds
        THEN provider.rate_limit_seconds - (now - last_time)
        ELSE 0

\* lines 227-234: the wait before the call, at time now
CooldownWait(provider, last_request_time, now) ==
    IF provider.rate_limit_seconds > 0
       /\ now - last_request_time[provider.name] < provider.rate_limit_seconds
    THEN provider.rate_limit_seconds - (now - last_request_time[provider.name])
    ELSE 0

\* the calls of one run, the requests that fail in it, the seconds that pass
\* outside of sleeps, the seconds a sleep may last longer than asked, and the
\* update_provider_config calls of one run
MaxCalls == 2
MaxFailures == 3
MaxTicks == 1
MaxOversleep == 1
MaxUpdates == 1

\* the clock when the router is made; time.time() is far above any cooldown
Epoch == 100
\* the machine's monotonic clock, in seconds, when the router is made
Uptime == 50
\* the nanoseconds the monotonic clock may show past a second when a sleep
\* begins: the fewest and the most
ClockNanos == {0, 999999999}

\* the router after __init__: an empty _last_request_time, read with
\* .get(name, 0).  key is the name the current call was asked for, provider
\* the name attribute of the provider it found under it; starts keeps, for
\* each key of self.providers, when the last call routed to it began.
NewRouter ==
    [pc |-> "ready", now |-> Epoch,
     providers |-> InitProviders,
     last_request_time |-> [n \in TimerNames |-> 0],
     starts |-> [n \in ProviderNames |-> 0],
     calls |-> 0, failures |-> 0, ticks |-> 0, updates |-> 0,
     key |-> "", provider |-> "", attempt |-> 0, outcomes |-> <<>>,
     waits |-> <<>>, cooldown |-> 0, text |-> NoText, error |-> NoError]

RouterIdle == rt = [NewRouter EXCEPT !.pc = "idle"]

LedgerIdle == ledger = NewLedger(0, FALSE)

(***************************************************************************)
(* One run of _execute_tasks_sequentially, task by task.                   *)
(***************************************************************************)

EmptyLoopState == [paragraphs |-> <<>>, modified_indices |-> {}, calls |-> 0]

\* no task has gone through the loop body yet
NoTaskYet == [target |-> 0, original |-> "", returned |-> "",
              resp |-> RespRaises, called |-> FALSE, skipped |-> FALSE]

PatchIdle ==
    /\ pPaper = ""
    /\ pTasks = <<>>
    /\ pPc = "idle"
    /\ pPos = 1
    /\ pState = EmptyLoopState
    /\ pResult = ""
    /\ pLast = NoTaskYet

PatchInit ==
    /\ pPaper \in Drafts
    /\ pTasks \in SeqsUpTo(Tasks, MaxTasks)
    /\ pPc = "start"
    /\ pPos = 1
    /\ pState = EmptyLoopState
    /\ pResult = ""
    /\ pLast = NoTaskYet

\* lines 734-746: the early returns and the parse
PatchStart ==
    /\ pPc = "start"
    /\ LET paragraphs == ExtractPaperParagraphs(pPaper)
       IN  IF pTasks = <<>> \/ ParseFailed(paragraphs)
           THEN /\ pPc' = "done"
                /\ pResult' = pPaper
                /\ pState' = pState
           ELSE /\ pPc' = "loop"
                /\ pResult' = pResult
                /\ pState' = [EmptyLoopState EXCEPT !.paragraphs = paragraphs]
    /\ UNCHANGED <<pPaper, pTasks, pPos, pLast>>
    /\ UNCHANGED <<ctlVars, ledgerVars, reviewVars, routerVars>>

\* lines 749-803: one task
PatchTask ==
    /\ pPc = "loop"
    /\ pPos <= Len(pTasks)
    /\ \E resp \in Responses :
         LET task   == pTasks[pPos]
             target == LocateTarget(pState.paragraphs, task)
             tried  == target # 0 /\ target \notin pState.modified_indices
             old    == IF target = 0 THEN ""
                       ELSE pState.paragraphs[target].full_text
         IN  /\ pState' = TaskStep(pState, task, resp)
             /\ pLast' = [target   |-> target,
                          original |-> old,
                          returned |-> IF tried
                                       THEN PatchModifyParagraph(old, resp)
                                       ELSE "",
                          resp     |-> resp,
                          called   |-> tried /\ ~PatchSkipsCall(old),
                          skipped  |-> ~tried]
    /\ pPos' = pPos + 1
    /\ UNCHANGED <<pPaper, pTasks, pPc, pResult>>
    /\ UNCHANGED <<ctlVars, ledgerVars, reviewVars, routerVars>>

\* lines 805-809: reassembly and return
PatchFinish ==
    /\ pPc = "loop"
    /\ pPos > Len(pTasks)
    /\ pResult' = Reassemble(pState.paragraphs)
    /\ pPc' = "done"
    /\ UNCHANGED <<pPaper, pTasks, pPos, pState, pLast>>
    /\ UNCHANGED <<ctlVars, ledgerVars, reviewVars, routerVars>>

PatchNext == PatchStart \/ PatchTask \/ PatchFinish

InitPatch == PatchInit /\ CtlIdle /\ LedgerIdle /\ ReviewIdle /\ RouterIdle

SpecPatch == InitPatch /\ [][PatchNext]_vars

(***************************************************************************)
(* One run of review_and_optimize_iteratively, round by round.             *)
(***************************************************************************)

CtlInit ==
    /\ \E draft \in {DraftStructured}, max_rounds \in 1..MaxRounds,
          target_score \in TargetScores :
         ctl = [max_rounds    |-> max_rounds,
                target_score  |-> target_score,
                paper_content |-> draft,
                current_paper |-> draft,
                best_paper    |-> draft,
                best_score    |-> 0,
                round_num     |-> 0,
                all_reviews   |-> <<>>,
                failure       |-> "none"]
    /\ cPc = "loop"
    /\ cResult = NoResult

\* lines 49-90: one iteration of the for loop.  Each entry of all_reviews also
\* records the paper the round was run on (input), the paper its score was
\* given for (scored) and whether a patching call failed in it (patch_failed),
\* which the source does not store.  A patching call can fail only where the
\* failure is caught.
ReviewRound ==
    /\ cPc = "loop"
    /\ ctl.round_num < ctl.max_rounds
    /\ \E review \in { r \in RoundResults(ctl.current_paper) :
                          r.patch_failed => Swallows("patching") } :
         LET round_num == ctl.round_num + 1
             accepted  == Accepts(review.score, ctl.best_score)
             best_score == IF accepted THEN review.score ELSE ctl.best_score
         IN  /\ ctl' = [ctl EXCEPT
                          !.round_num = round_num,
                          !.all_reviews =
                              Append(@, [optimized_paper |-> review.optimized_paper,
                                         score |-> review.score,
                                         input |-> ctl.current_paper,
                                         scored |-> ScoredPaper(ctl.current_paper,
                                                       review.optimized_paper),
                                         patch_failed |-> review.patch_failed]),
                          !.best_paper = IF accepted THEN review.optimized_paper
                                         ELSE @,
                          !.best_score = best_score,
                          !.current_paper =
                              NextCurrentPaper(accepted, review.optimized_paper,
                                               ctl.best_paper)]
             /\ cPc' = IF LoopEnds(best_score, ctl.target_score, round_num,
                                   ctl.max_rounds)
                       THEN "exit" ELSE "loop"
    /\ UNCHANGED <<cResult, patchVars, ledgerVars, reviewVars, routerVars>>

\* lines 92-101: the return
ReturnResult ==
    /\ cPc = "exit"
    /\ cResult' = [final_paper |-> ctl.best_paper,
                   rounds      |-> ctl.round_num,
                   final_score |-> ctl.best_score,
                   all_reviews |-> ctl.all_reviews]
    /\ cPc' = "done"
    /\ UNCHANGED <<ctl, patchVars, ledgerVars, reviewVars, routerVars>>

\* lines 53 and 114-161: a call of the generation collaborator fails for good
\* in a phase of the round that does not catch it; the exception leaves
\* _single_round_review_and_optimize and review_and_optimize_iteratively,
\* which has no handler around line 53
RoundRaises ==
    /\ cPc = "loop"
    /\ ctl.round_num < ctl.max_rounds
    /\ \E i \in DOMAIN RoundPhases :
         /\ ~Swallows(RoundPhases[i])
         /\ ctl' = [ctl EXCEPT !.failure = RoundPhases[i]]
    /\ cPc' = "raised"
    /\ UNCHANGED <<cResult, patchVars, ledgerVars, reviewVars, routerVars>>

CtlNext == ReviewRound \/ RoundRaises \/ ReturnResult

InitController == CtlInit /\ PatchIdle /\ LedgerIdle /\ ReviewIdle /\ RouterIdle

SpecController == InitController /\ [][CtlNext]_vars

(***************************************************************************)
(* Calls on one CitationManager, in any order.                             *)
(***************************************************************************)

\* texts handed to sync_with_text
SyncTexts == {"No marker at all.", "Only the first [01] is left."}

LedgerInit ==
    \E max_total \in MaxTotals, has_router \in BOOLEAN :
        ledger = NewLedger(max_total, has_router)

\* set_current_section as generate_paper calls it: the introduction and the
\* conclusion with the default indices, a chapter with its two indices
CallSetCurrentSection ==
    /\ \E section_type \in {"introduction", "chapter", "conclusion"},
          chapter_idx \in 0..MaxChapterIdx, subsection_idx \in 0..MaxSubsection :
         /\ section_type # "chapter" => chapter_idx = 0 /\ subsection_idx = 0
         /\ ledger' = SetCurrentSection(ledger, section_type, chapter_idx,
                                        subsection_idx)
    /\ UNCHANGED <<patchVars, ctlVars, reviewVars, routerVars>>

CallGenerateSentence ==
    /\ \E raw \in [1..(Len(Pool) - Cardinality(ledger.pool_used)) -> 1..Len(Pool)] :
         /\ IsRawCandidates(ledger, raw)
         /\ \E llm_pick \in (IF raw = <<>> THEN {1} ELSE DOMAIN raw) :
            \E reuse_keys \in
                 [1..(IF Cardinality(DOMAIN ledger.citation_tracker) < 2
                      THEN Cardinality(DOMAIN ledger.citation_tracker) ELSE 2)
                    -> DOMAIN ledger.citation_tracker] :
              /\ IsReuseKeys(ledger, reuse_keys)
              /\ ledger' = GenerateSentenceWithCitations(
                                ledger, raw, llm_pick, reuse_keys).ledger
    /\ UNCHANGED <<patchVars, ctlVars, reviewVars, routerVars>>

CallSyncWithText ==
    /\ \E paper_text \in SyncTexts :
         ledger' = SyncWithText(ledger, paper_text).ledger
    /\ UNCHANGED <<patchVars, ctlVars, reviewVars, routerVars>>

LedgerNext == CallSetCurrentSection \/ CallGenerateSentence \/ CallSyncWithText

InitLedger == LedgerInit /\ PatchIdle /\ CtlIdle /\ ReviewIdle /\ RouterIdle

SpecLedger == InitLedger /\ [][LedgerNext]_vars

(***************************************************************************)
(* One call of _extract_comprehensive_score or of _task_decomposer.        *)
(***************************************************************************)

ReviewInit ==
    \/ \E text \in SynthesisTexts :
         rev = [op |-> "score", input |-> text, panel |-> <<>>, done |-> FALSE,
                score |-> NoScore, tasks |-> <<>>]
    \/ \E response \in PlannerResponses :
         rev = [op |-> "plan", input |-> response, panel |-> <<>>,
                done |-> FALSE, score |-> NoScore, tasks |-> <<>>]
    \/ \E text \in RoundSyntheses, panel \in ExpertPanels :
         rev = [op |-> "round", input |-> text, panel |-> panel,
                done |-> FALSE, score |-> NoScore, tasks |-> <<>>]

CallExtractScore ==
    /\ rev.op = "score"
    /\ ~rev.done
    /\ rev' = [rev EXCEPT !.done = TRUE,
                          !.score = ExtractComprehensiveScore(rev.input)]
    /\ UNCHANGED <<patchVars, ctlVars, ledgerVars, routerVars>>

\* lines 114-152 of _single_round_review_and_optimize: the scores of the four
\* feedbacks, the score of the synthesis, and the round's integrated score
CallRoundScore ==
    /\ rev.op = "round"
    /\ ~rev.done
    /\ rev' = [rev EXCEPT !.done = TRUE,
                          !.score = RoundScore(rev.panel, rev.input)]
    /\ UNCHANGED <<patchVars, ctlVars, ledgerVars, routerVars>>

CallTaskDecomposer ==
    /\ rev.op = "plan"
    /\ ~rev.done
    /\ rev' = [rev EXCEPT !.done = TRUE,
                          !.tasks = TaskDecomposer(rev.input)]
    /\ UNCHANGED <<patchVars, ctlVars, ledgerVars, routerVars>>

ReviewNext == CallExtractScore \/ CallTaskDecomposer \/ CallRoundScore

InitReview == ReviewInit /\ PatchIdle /\ CtlIdle /\ LedgerIdle /\ RouterIdle

SpecReview == InitReview /\ [][ReviewNext]_vars

(***************************************************************************)
(* The calls of one ModelRouter.                                           *)
(***************************************************************************)

RouterInit == rt = NewRouter

\* generate(provider_name=...) and lines 226-236: the call finds its
\* provider, sleeps out the provider's cooldown and records its start under
\* the provider's name
BeginCall ==
    /\ rt.pc \in {"ready", "returned", "raised"}
    /\ rt.calls < MaxCalls
    /\ \E provider_name \in DOMAIN rt.providers :
         LET provider == rt.providers[provider_name]
             wait_time == CooldownWait(provider, rt.last_request_time, rt.now)
         IN  \E over \in 0..(IF wait_time > 0 THEN MaxOversleep ELSE 0) :
               rt' = [rt EXCEPT
                        !.pc = "attempt",
                        !.calls = @ + 1,
                        !.key = provider_name,
                        !.provider = provider.name,
                        !.now = @ + wait_time + over,
                        !.last_request_time[provider.name] =
                            rt.now + wait_time + over,
                        !.starts[provider_name] = rt.now + wait_time + over,
                        !.cooldown = wait_time,
                        !.attempt = 0, !.outcomes = <<>>, !.waits = <<>>,
                        !.text = NoText, !.error = NoError]
    /\ UNCHANGED <<patchVars, ctlVars, ledgerVars, reviewVars>>

\* lines 313-376: one attempt, with the sleep that follows a failure
Attempt ==
    /\ rt.pc = "attempt"
    /\ \E outcome \in { o \in Outcomes : o.kind = "ok" \/ rt.failures < MaxFailures },
          nanos \in ClockNanos :
         LET provider == rt.providers[rt.key]
             res == AttemptResult(provider, outcome, rt.attempt,
                                  Uptime + (rt.now - Epoch), nanos)
         IN  rt' = [rt EXCEPT
                      !.pc = IF res.does = "retry" THEN "attempt"
                             ELSE IF res.does = "return" THEN "returned"
                             ELSE "raised",
                      !.attempt = IF res.does = "retry" THEN @ + 1 ELSE @,
                      !.outcomes = Append(@, outcome),
                      !.failures = IF outcome.kind = "ok" THEN @ ELSE @ + 1,
                      !.waits = IF res.does = "retry"
                                THEN Append(@, ToInt(res.wait))
                                ELSE @,
                      !.now = @ + ToInt(res.wait),
                      !.text = res.text,
                      !.error = res.error]
    /\ UNCHANGED <<patchVars, ctlVars, ledgerVars, reviewVars>>

\* a second passes between two calls
Tick ==
    /\ rt.pc \in {"ready", "returned", "raised"}
    /\ rt.ticks < MaxTicks
    /\ rt' = [rt EXCEPT !.now = @ + 1, !.ticks = @ + 1]
    /\ UNCHANGED <<patchVars, ctlVars, ledgerVars, reviewVars>>

\* lines 378-388: update_provider_config(provider_name, **kwargs) between two
\* calls, for a provider_name of self.providers (for another the function
\* raises ValueError and changes nothing)
UpdateProviderConfig ==
    /\ rt.pc \in {"ready", "returned", "raised"}
    /\ rt.updates < MaxUpdates
    /\ \E provider_name \in DOMAIN rt.providers, kwargs \in ConfigUpdates :
         rt' = [rt EXCEPT
                  !.providers[provider_name] = UpdatedProvider(@, kwargs),
                  !.updates = @ + 1]
    /\ UNCHANGED <<patchVars, ctlVars, ledgerVars, reviewVars>>

\* the router in the program: generate calls, their attempts and the time
\* between them.  update_provider_config has no caller in src/
RouterNext == BeginCall \/ Attempt \/ Tick

InitRouter == RouterInit /\ PatchIdle /\ CtlIdle /\ LedgerIdle /\ ReviewIdle

SpecRouter == InitRouter /\ [][RouterNext]_vars

\* the router in the hands of a client of the class, who also calls
\* update_provider_config
RouterConfigNext == RouterNext \/ UpdateProviderConfig

SpecRouterConfig == InitRouter /\ [][RouterConfigNext]_vars

(***************************************************************************)
(* Properties of the Refinement Controller (SpecController).               *)
(***************************************************************************)

\* the best score and the best document after the first k rounds of a list of
\* reviews, by the rule "a round becomes the best iff it scores strictly higher"
RECURSIVE BestScoreAfter(_, _)
BestScoreAfter(reviews, k) ==
    IF k = 0 THEN 0
    ELSE LET before == BestScoreAfter(reviews, k - 1)
         IN  IF reviews[k].score > before THEN reviews[k].score ELSE before

RECURSIVE BestPaperAfter(_, _, _)
BestPaperAfter(draft, reviews, k) ==
    IF k = 0 THEN draft
    ELSE IF reviews[k].score > BestScoreAfter(reviews, k - 1)
         THEN reviews[k].optimized_paper
         ELSE BestPaperAfter(draft, reviews, k - 1)

\* the first round whose score equals the final score: the round that set it
SettingRound(reviews, final_score) ==
    CHOOSE k \in DOMAIN reviews :
        /\ reviews[k].score = final_score
        /\ \A j \in 1..(k - 1) : reviews[j].score # final_score

\* C1: when the run has returned, final_score is at least the score of every
\* executed round, and final_paper is the document of the round that set
\* final_score, or the caller's draft when no round scored above 0.
C1_ReturnsBestDocument ==
    cPc = "done" =>
        LET reviews == cResult.all_reviews
        IN  /\ Len(reviews) >= 1
            /\ \A k \in DOMAIN reviews : cResult.final_score >= reviews[k].score
            /\ IF \A k \in DOMAIN reviews : reviews[k].score <= 0
               THEN /\ cResult.final_score = 0
                    /\ cResult.final_paper = ctl.paper_content
               ELSE cResult.final_paper =
                      reviews[SettingRound(reviews, cResult.final_score)].optimized_paper

\* a run has returned in which a round after the best one scored lower and
\* produced another document than the one returned
C1_Witness ==
    /\ cPc = "done"
    /\ \E k \in DOMAIN cResult.all_reviews :
         /\ k > SettingRound(cResult.all_reviews, cResult.final_score)
         /\ cResult.all_reviews[k].score < cResult.final_score
         /\ cResult.all_reviews[k].optimized_paper # cResult.final_paper

\* C2: a round replaces the best document and the best score by its own iff
\* its score is strictly greater than the best score before it; otherwise both
\* stay.  Before the first round the best score is 0 and the best document is
\* the caller's draft.
C2_AcceptIffStrictlyGreater ==
    [][ /\ ctl.round_num = 0 =>
             ctl.best_score = 0 /\ ctl.best_paper = ctl.paper_content
        /\ ctl'.round_num = ctl.round_num + 1 =>
             LET review == ctl'.all_reviews[ctl'.round_num]
             IN  IF review.score > ctl.best_score
                 THEN /\ ctl'.best_score = review.score
                      /\ ctl'.best_paper = review.optimized_paper
                 ELSE /\ ctl'.best_score = ctl.best_score
                      /\ ctl'.best_paper = ctl.best_paper ]_vars

\* a round that scored exactly the best score, with another document, has been
\* turned down
C2_Witness ==
    \E k \in DOMAIN ctl.all_reviews :
        /\ k > 1
        /\ ctl.all_reviews[k].score = ctl.best_score
        /\ ctl.all_reviews[k].score = BestScoreAfter(ctl.all_reviews, k - 1)
        /\ ctl.all_reviews[k].optimized_paper # ctl.best_paper
        /\ k = ctl.round_num

\* C3: every round runs on the best-so-far document: the input of round k is
\* the best document after rounds 1..k-1, and between rounds current_paper is
\* best_paper.
C3_RoundStartsFromBest ==
    /\ cPc = "loop" => ctl.current_paper = ctl.best_paper
    /\ \A k \in DOMAIN ctl.all_reviews :
         ctl.all_reviews[k].input =
             BestPaperAfter(ctl.paper_content, ctl.all_reviews, k - 1)

\* round 1 scored 62, round 2 scored 58 with another document, and round 3 has
\* run on the round-1 document; the best score is still 62 after round 2
C3_Witness ==
    /\ Len(ctl.all_reviews) = 3
    /\ ctl.all_reviews[1].score = 62
    /\ ctl.all_reviews[2].score = 58
    /\ ctl.all_reviews[2].optimized_paper # ctl.all_reviews[1].optimized_paper
    /\ ctl.all_reviews[3].input = ctl.all_reviews[1].optimized_paper
    /\ BestScoreAfter(ctl.all_reviews, 2) = 62

\* the loop is left after round k exactly when the best score after round k
\* reaches target_score or k = max_rounds, and the result reports the number of
\* rounds executed, between 1 and max_rounds
StopsExactlyWhenDue ==
    /\ ctl.round_num <= ctl.max_rounds
    /\ Len(ctl.all_reviews) = ctl.round_num
    /\ \A k \in 1..(ctl.round_num - 1) :
         BestScoreAfter(ctl.all_reviews, k) < ctl.target_score
    /\ cPc = "loop" =>
         /\ ctl.round_num < ctl.max_rounds
         /\ ctl.round_num >= 1 => ctl.best_score < ctl.target_score
    /\ cPc \in {"exit", "done"} =>
         /\ ctl.round_num >= 1
         /\ ctl.best_score >= ctl.target_score \/ ctl.round_num = ctl.max_rounds
    /\ cPc = "done" =>
         /\ cResult.rounds = Len(cResult.all_reviews)
         /\ 1 <= cResult.rounds /\ cResult.rounds <= ctl.max_rounds

\* a run that has not returned can take its next step: in the loop a round has
\* a result to deliver, and the return itself has no condition
CanProceed ==
    cPc = "loop" =>
        ctl.round_num < ctl.max_rounds /\ RoundResults(ctl.current_paper) # {}

\* the steps a run still has to take: the rounds up to max_rounds and the return
StepsLeft ==
    (ctl.max_rounds - ctl.round_num) + (IF cPc \in {"done", "raised"} THEN 0 ELSE 1)

\* C4: every run ends (it can always take a step before the return, and
\* every step lowers the non-negative number of steps left), having left the
\* loop after round k exactly when the best score after round k reaches
\* target_score or k = max_rounds, and reports the number of rounds it
\* executed, between 1 and max_rounds.
C4_TerminatesWhenDue ==
    /\ []StopsExactlyWhenDue
    /\ [](CanProceed /\ StepsLeft >= 0)
    /\ [][StepsLeft' < StepsLeft]_vars

\* a run has returned before max_rounds because the target was reached, after
\* a round that did not reach it
C4_Witness ==
    /\ cPc = "done"
    /\ cResult.rounds = 2
    /\ ctl.max_rounds = 3
    /\ cResult.final_score >= ctl.target_score

(***************************************************************************)
(* Properties of the Patch Executor (SpecPatch).                           *)
(***************************************************************************)

\* the latest task reached _patch_modify_paragraph
PatchTried == pLast.target # 0 /\ ~pLast.skipped

\* C5: the text the Patch Executor returns for a paragraph, which is the text
\* the paragraph then has, contains every citation number of the original; an
\* output that lacks one is turned down and the original is returned.
C5_PatchKeepsCitations ==
    PatchTried =>
        /\ CitationNumbers(pLast.original) \subseteq CitationNumbers(pLast.returned)
        /\ pState.paragraphs[pLast.target].full_text = pLast.returned
        /\ ( /\ pLast.called
             /\ ~pLast.resp.raises
             /\ ~(CitationNumbers(pLast.original)
                    \subseteq CitationNumbers(pLast.resp.text)) )
           => pLast.returned = pLast.original

\* the paragraph with [3][7] got an output without [7] and kept its text
C5_Witness ==
    /\ PatchTried
    /\ pLast.called
    /\ pLast.original = ParaAlpha
    /\ CitationNumbers(pLast.original) = {3, 7}
    /\ pLast.resp = RespDrop7
    /\ 7 \notin CitationNumbers(pLast.resp.text)
    /\ pLast.returned = ParaAlpha

\* the non-empty stripped blocks of a document, in order
RECURSIVE NonEmptyStripped(_)
NonEmptyStripped(blocks) ==
    IF blocks = <<>> THEN <<>>
    ELSE IF Strip(Head(blocks)) = "" THEN NonEmptyStripped(Tail(blocks))
    ELSE <<Strip(Head(blocks))>> \o NonEmptyStripped(Tail(blocks))

Blocks(paper) == NonEmptyStripped(Split(paper, "\n\n"))

\* blocks without the members of a set
RECURSIVE Without(_, _)
Without(blocks, S) ==
    IF blocks = <<>> THEN <<>>
    ELSE IF Head(blocks) \in S THEN Without(Tail(blocks), S)
    ELSE <<Head(blocks)>> \o Without(Tail(blocks), S)

\* a occurs in b in the same order, not necessarily contiguously
RECURSIVE IsSubsequence(_, _)
IsSubsequence(a, b) ==
    IF a = <<>> THEN TRUE
    ELSE IF b = <<>> THEN FALSE
    ELSE IF Head(a) = Head(b) THEN IsSubsequence(Tail(a), Tail(b))
    ELSE IsSubsequence(a, Tail(b))

\* the original texts of the paragraphs whose patch was committed
PatchedOriginals ==
    { ExtractPaperParagraphs(pPaper)[i].full_text : i \in pState.modified_indices }

\* C6: a run changes only the paragraphs whose patch was committed: every other
\* block of the input is in the output, unchanged and in the same order, and a
\* run in which no patch commits returns the blocks of its input.
C6_UntouchedBlocksKept ==
    pPc = "done" =>
        /\ IsSubsequence(Without(Blocks(pPaper), PatchedOriginals), Blocks(pResult))
        /\ pState.modified_indices = {} => Blocks(pResult) = Blocks(pPaper)

(***************************************************************************)
(* Properties of the Citation Ledger (SpecLedger).                         *)
(***************************************************************************)

\* C7: no citation number is held by two literature records.
C7_NumbersNeverShared ==
    \A k1, k2 \in DOMAIN ledger.citation_tracker :
        k1 # k2 => ledger.citation_tracker[k1] # ledger.citation_tracker[k2]

\* C8: a record that has a citation number keeps its entry and its number
\* through every later call.  (The tracker maps a record to one number, so a
\* record has no second number as long as its entry is never rewritten.)
C8_EntriesNeverChange ==
    [][ \A k \in DOMAIN ledger.citation_tracker :
          /\ k \in DOMAIN ledger'.citation_tracker
          /\ ledger'.citation_tracker[k] = ledger.citation_tracker[k] ]_vars

\* sync_with_text has run on a text without the numbers of two of the three
\* entries (the next number is back at 2), and the entries are all there
C8_Witness ==
    /\ Cardinality(DOMAIN ledger.citation_tracker) = 3
    /\ ledger.next_citation_num = 2
    /\ \E k \in DOMAIN ledger.citation_tracker : ledger.citation_tracker[k] = 3

\* the members of a sequence
Range(q) == { q[i] : i \in DOMAIN q }

\* C9: a call of generate_sentence_with_citations made while one of the three
\* quotas has nothing left adds no ledger entry, and every number it puts in
\* the sentence is already in the ledger.
C9_NoNewEntryWhenGated ==
    [][ ~CanAdd(ledger) =>
          /\ DOMAIN ledger'.citation_tracker = DOMAIN ledger.citation_tracker
          /\ \A raw \in [1..(Len(Pool) - Cardinality(ledger.pool_used)) -> 1..Len(Pool)] :
               IsRawCandidates(ledger, raw) =>
                 \A llm_pick \in DOMAIN raw :
                   Range(GenerateSentenceWithCitations(
                           ledger, raw, llm_pick, <<>>).citation_nums)
                     \subseteq TrackerNumbers(ledger) ]_vars

\* C10: in every region the citations committed are at most the region's quota
\* plus a tolerance of 1.
C10_QuotaBound ==
    \A r \in Regions : ledger.chapter_used[r] <= ledger.chapter_quotas[r] + 1

\* the section quotas as a tuple: introduction, chapter_1..3, conclusion
QuotaTuple(st) ==
    << st.chapter_quotas["introduction"], st.chapter_quotas["chapter_1"],
       st.chapter_quotas["chapter_2"], st.chapter_quotas["chapter_3"],
       st.chapter_quotas["conclusion"] >>

\* C11 as stated: a ledger constructed with a global total of 25 has the
\* quotas introduction 3, chapter_1..3 8 each, conclusion 0.
C11_QuotasOf25_AsStated ==
    ledger.max_total_citations = 25 => QuotaTuple(ledger) = <<3, 8, 8, 8, 0>>

\* C11, amended: a ledger constructed with a global total of 25 has the quotas
\* introduction 3, chapter_1..3 7 each, conclusion 0 (the ceilings 3 + 3 * 8
\* exceed 25 by 2, and each chapter gives up (2 + 2) \div 3 = 1), and it keeps
\* them through every call.
C11_QuotasOf25 ==
    ledger.max_total_citations = 25 => QuotaTuple(ledger) = <<3, 7, 7, 7, 0>>

\* a ledger built for 25 citations is in use in a chapter and its quotas sum
\* to 24
C11_Witness ==
    /\ ledger.max_total_citations = 25
    /\ ledger.current_chapter = "chapter_1"
    /\ ledger.chapter_used["chapter_1"] >= 1
    /\ ledger.chapter_quotas["chapter_1"] = 7

\* C12, for the documents of a refinement round: a round has no access to the
\* ledger, so the ledger is the same before and after it; whatever ledger
\* covers every [N] marker of the round's input covers every [N] marker of
\* the round's output, that is, collaborator-written text brings no marker
\* into the document whose number is absent from the ledger.
C12_MarkersStayInLedger ==
    pPc = "done" =>
        \A numbers \in SUBSET (CitationNumbers(pPaper) \cup CitationNumbers(pResult)) :
            CitationNumbers(pPaper) \subseteq numbers
                => CitationNumbers(pResult) \subseteq numbers

\* the texts sync_with_text is tried on: those of the calls, and one with a
\* marker the ledger may hold beside one it never holds
MixedText == "Both [2] and [9] appear."
TextsToSync == SyncTexts \cup {MixedText}

\* C13: whatever the text, sync_with_text leaves every ledger entry as it
\* was (none added, removed or renumbered); a number of the text without an
\* entry is reported as missing, a ledger number absent from the text is
\* reported (as removed) and stays, and matched is the intersection of the
\* text's numbers and the ledger's numbers.
C13_SyncOnlyReports ==
    \A paper_text \in TextsToSync :
        LET synced == SyncWithText(ledger, paper_text)
            in_text == CitationNumbers(paper_text)
        IN  /\ synced.ledger.citation_tracker = ledger.citation_tracker
            /\ \A n \in in_text \cup TrackerNumbers(ledger) :
                 /\ n \in synced.report.missing
                      <=> (n \in in_text /\ n \notin TrackerNumbers(ledger))
                 /\ n \in synced.report.removed
                      <=> (n \notin in_text /\ n \in TrackerNumbers(synced.ledger))
                 /\ n \in synced.report.matched
                      <=> (n \in in_text /\ n \in TrackerNumbers(ledger))
            /\ synced.report.missing \cup synced.report.removed
                 \cup synced.report.matched \subseteq in_text \cup TrackerNumbers(ledger)

\* a ledger holding the numbers 1 and 2 has been synced with a text whose
\* highest marker is [1]; on the mixed text 9 is missing, 1 unused, 2 matched
C13_Witness ==
    /\ TrackerNumbers(ledger) = {1, 2}
    /\ ledger.next_citation_num = 2
    /\ SyncWithText(ledger, MixedText).report.missing = {9}
    /\ SyncWithText(ledger, MixedText).report.removed = {1}
    /\ SyncWithText(ledger, MixedText).report.matched = {2}

\* the citation number an entry of the reference list starts with
EntryNumber(entry) == ToInt(SubSeq(entry, 2, 1 + DigitRun(entry, 2)))

\* C14: generate_reference_list gives one entry per ledger record, in strictly
\* ascending order of citation number, each entry "[N] " followed by the
\* record's citation text without its leading "[digits]" numbering, the
\* entries joined by a blank line; an empty ledger gives the empty text.
C14_ReferenceListAscending ==
    LET text    == GenerateReferenceList(ledger)
        entries == IF text = "" THEN <<>> ELSE Split(text, "\n\n")
    IN  /\ DOMAIN ledger.citation_tracker = {} => text = ""
        /\ Len(entries) = Cardinality(DOMAIN ledger.citation_tracker)
        /\ \A i, j \in DOMAIN entries :
             i < j => EntryNumber(entries[i]) < EntryNumber(entries[j])
        /\ \A k \in DOMAIN ledger.citation_tracker :
             \E i \in DOMAIN entries :
                /\ EntryNumber(entries[i]) = ledger.citation_tracker[k]
                /\ StartsWith(entries[i],
                              "[" \o ToStr(ledger.citation_tracker[k]) \o "] ")
                /\ Contains(PoolRecordOf(k).full_citation,
                            Suffix(entries[i],
                                   Len(ToStr(ledger.citation_tracker[k])) + 3))
                /\ Ch(entries[i], Len(ToStr(ledger.citation_tracker[k])) + 4)
                     \notin {"[", " "}

\* the collaborator's output passes the validation the claim describes:
\* non-empty and of the minimum length, holding every citation number of the
\* original, and between half and twice the original's length, bounds included
OutputIsValid(original_text, resp) ==
    /\ ~resp.raises
    /\ Strip(resp.text) # ""
    /\ Len(Strip(resp.text)) >= MinResultLen
    /\ CitationRefs(original_text) \subseteq CitationRefs(Strip(resp.text))
    /\ Len(original_text) <= 2 * Len(Strip(resp.text))
    /\ Len(Strip(resp.text)) <= 2 * Len(original_text)

\* C15: when the collaborator is called for a paragraph, its output becomes the
\* paragraph's text iff the output is valid; in every other case, a
\* collaborator error included, the paragraph keeps its original text; an
\* output equal to the original is valid and leaves the paragraph as it was.
C15_CommitsIffValid ==
    (PatchTried /\ pLast.called) =>
        /\ pState.paragraphs[pLast.target].full_text = pLast.returned
        /\ OutputIsValid(pLast.original, pLast.resp)
             => pLast.returned = Strip(pLast.resp.text)
        /\ ~OutputIsValid(pLast.original, pLast.resp)
             => pLast.returned = pLast.original
        /\ Strip(pLast.resp.text) = pLast.original
             => (OutputIsValid(pLast.original, pLast.resp)
                 /\ pLast.returned = pLast.original
                 /\ pLast.target \notin pState.modified_indices)
        /\ (pLast.target \in pState.modified_indices)
             <=> (OutputIsValid(pLast.original, pLast.resp)
                  /\ Strip(pLast.resp.text) # pLast.original)

\* an output of exactly half the original's length has been committed
C15_Witness ==
    /\ PatchTried
    /\ pLast.called
    /\ pLast.resp = RespHalf
    /\ 2 * Len(pLast.returned) = Len(pLast.original)
    /\ pLast.returned # pLast.original
    /\ pLast.target \in pState.modified_indices

\* a paragraph that no committed patch has touched has the text it had in the
\* round's input
UnpatchedKeepText ==
    pPc = "loop" =>
        \A i \in DOMAIN pState.paragraphs :
            i \notin pState.modified_indices =>
                pState.paragraphs[i].full_text
                    = ExtractPaperParagraphs(pPaper)[i].full_text

\* C16: within one run over a task list a paragraph's text changes at most
\* once: it changes only by a committed patch, and once patched it keeps its
\* text and its mark; a later task that resolves to it is skipped, without a
\* collaborator call and without any change.
C16_OnePatchPerParagraph ==
    /\ []UnpatchedKeepText
    /\ [][ /\ \A i \in pState.modified_indices :
                /\ i \in pState'.modified_indices
                /\ pState'.paragraphs[i].full_text = pState.paragraphs[i].full_text
           /\ (pPc = "loop" /\ pPos' = pPos + 1
                 /\ LocateTarget(pState.paragraphs, pTasks[pPos])
                      \in pState.modified_indices)
                => (pState' = pState /\ pLast'.skipped /\ ~pLast'.called) ]_vars

\* the second task of a run resolved to the paragraph the first task patched,
\* and was skipped
C16_Witness ==
    /\ pPos = 3
    /\ pLast.target # 0
    /\ pLast.skipped
    /\ pLast.target \in pState.modified_indices
    /\ pState.calls = 1


\* C17: a block the structure parser recognizes as a heading, in any accepted
\* syntax, is never the target a task resolves to and never has its text
\* changed, whether the task carries an index or is located by its keywords.
C17_HeadingsNeverTargeted ==
    pPc \in {"loop", "done"} =>
        LET parsed == ExtractPaperParagraphs(pPaper)
        IN  /\ \A i \in DOMAIN pState.paragraphs :
                 parsed[i].is_heading =>
                     /\ i \notin pState.modified_indices
                     /\ pState.paragraphs[i].full_text = parsed[i].full_text
            /\ pLast.target # 0 => ~parsed[pLast.target].is_heading

(***************************************************************************)
(* Properties of the score recognizer and the Task Planner (SpecReview).   *)
(***************************************************************************)

\* the recognizer patterns in the order of the source
Patterns == 1..7

\* what is found with pattern k in the text
Found(k, text) == IF k <= 4 THEN Search(k, text, 1) ELSE FindAll(k, text, 1)

\* pattern k matches, what it found being the sequence found: a match for
\* the patterns 1 to 5, four dimension scores for 6, four subtotals or more
\* for 7
MatchesWith(k, found) ==
    IF k <= 5 THEN found # <<>>
    ELSE IF k = 6 THEN Len(found) = 4
    ELSE Len(found) >= 4

\* the value pattern k gives when it matches
ValueWith(k, found) ==
    IF found = <<>> THEN NoScore
    ELSE IF k <= 4 THEN Head(found)
    ELSE IF k = 5 THEN found[Len(found)]
    ELSE IF k = 6 THEN FloatSum(found)
    ELSE FloatSum(SubSeq(found, 1, 4))

PatternMatches(k, text) == MatchesWith(k, Found(k, text))

PatternValue(k, text) == ValueWith(k, Found(k, text))

\* recognizer k matches the text: its pattern gives a value, which for the
\* second recognizer, the plain mention of a score, is one of at most 100
RecognizerMatches(k, text) ==
    /\ PatternMatches(k, text)
    /\ k = 2 => FloatLeq(PatternValue(2, text), Float(100))

\* C18: the recognizers are tried in one fixed order and the score is the
\* value of the first of them that matches the text, whatever the later ones
\* find; when none matches the score is the default 60, never 0.
C18_FirstMatchWins ==
    (rev.op = "score" /\ rev.done) =>
        LET matching == { k \in Patterns : RecognizerMatches(k, rev.input) }
        IN  IF matching = {}
            THEN rev.score = Float(DefaultScore) /\ rev.score # Zero
            ELSE rev.score = PatternValue(SetMin(matching), rev.input)

\* two recognizers match the text with different values, and the score is
\* the value of the earlier one
C18_Witness ==
    /\ rev.op = "score"
    /\ rev.done
    /\ \E j \in Patterns, k \in Patterns :
         /\ j < k
         /\ \A i \in 1..(j - 1) : ~RecognizerMatches(i, rev.input)
         /\ RecognizerMatches(j, rev.input)
         /\ RecognizerMatches(k, rev.input)
         /\ PatternValue(j, rev.input) # PatternValue(k, rev.input)
         /\ rev.score = PatternValue(j, rev.input)


\* the lines of a response and the parts of a line
ResponseLines(response) == Split(response, "\n")
LineParts(line) == Split(line, "|")

\* the tasks are those of the lines at the positions parsed, in line order,
\* numbered from 1, with no target index; one generic task when none parses
TasksAreOf(tasks, lines, parsed) ==
    /\ tasks # <<>>
    /\ parsed = {} => tasks = <<GenericTask>>
    /\ parsed # {} =>
         /\ Len(tasks) = Cardinality(parsed)
         /\ \A i \in parsed :
              LET j == Cardinality({ k \in parsed : k <= i })
              IN  /\ tasks[j].task_id = j
                  /\ tasks[j].problem = Strip(LineParts(lines[i])[1])
                  /\ tasks[j].requirement = Strip(LineParts(lines[i])[2])
                  /\ tasks[j].paragraph_index = NoIndex

\* C19 as stated: the task list is never empty; every response line with at
\* least two '|'-separated parts becomes one task, numbered 1..n in line
\* order, with no target index; when no line parses there is exactly one
\* generic task.
C19_EveryLineWithTwoParts_AsStated ==
    (rev.op = "plan" /\ rev.done) =>
        LET lines == ResponseLines(rev.input)
        IN  TasksAreOf(rev.tasks, lines,
                       { i \in DOMAIN lines : Len(LineParts(lines[i])) >= 2 })

\* C19: the task list is never empty; every response line that does not start
\* with '#' or a left title bracket and has at least two '|'-separated parts
\* becomes one task, numbered 1..n in line order, with no target index; when
\* no line parses there is exactly one generic task.
C19_TasksOfParsedLines ==
    (rev.op = "plan" /\ rev.done) =>
        LET lines == ResponseLines(rev.input)
        IN  TasksAreOf(rev.tasks, lines,
                       { i \in DOMAIN lines :
                           /\ Ch(Strip(lines[i]), 1) \notin {"#", "B"}
                           /\ Len(LineParts(lines[i])) >= 2 })

\* a response of a '#' line with three parts and a task line gave one task
C19_Witness ==
    /\ rev.op = "plan"
    /\ rev.done
    /\ rev.input = "# title|of the|list\nvague terms|define them|Alpha"
    /\ Len(rev.tasks) = 1
    /\ rev.tasks[1].task_id = 1
    /\ rev.tasks[1].problem = "vague terms"


\* the parser found a heading in the document
HasHeading(paper) ==
    \E i \in DOMAIN ExtractPaperParagraphs(paper) :
        ExtractPaperParagraphs(paper)[i].is_heading

\* the run is over, with no collaborator call and the document returned as given
ReturnedUnpatched ==
    /\ pState.calls = 0
    /\ pState.modified_indices = {}
    /\ pResult = pPaper

\* C20 as stated: when the parser finds no heading in the input document, no
\* patch call is made and the run returns the document identical to its input.
C20_NoHeadingNoPatch_AsStated ==
    (pPc = "done" /\ ~HasHeading(pPaper)) => ReturnedUnpatched

\* C20: when the parser finds no entry at all in the input document, neither
\* a heading nor a body paragraph, no patch call is made and the run returns
\* the document identical to its input; no task is taken up.
C20_NoEntryNoPatch ==
    /\ (pPc = "done" /\ ExtractPaperParagraphs(pPaper) = <<>>) => ReturnedUnpatched
    /\ pPc = "loop" => ExtractPaperParagraphs(pPaper) # <<>>

\* a run with tasks on the draft without any entry has returned it
C20_Witness ==
    /\ pPc = "done"
    /\ pPaper = DraftTiny
    /\ pTasks # <<>>
    /\ ExtractPaperParagraphs(pPaper) = <<>>
    /\ pResult = DraftTiny



-----------------------------------------------------------------------------
\* Properties of the Model Router (SpecRouter)

\* the outcomes of the requests of the current call, and the last of them
CallOutcomes == rt.outcomes
LastOutcome == rt.outcomes[Len(rt.outcomes)]

\* C21: a call makes at most 3 requests; it returns the text of the first
\* request that succeeds; only a connection/timeout error or a 429 is followed
\* by a wait and another request; any other error is raised at once, and so
\* is the 3rd failure; the call never returns without a text.
C21_CallReturnsFirstSuccess ==
    /\ Len(CallOutcomes) <= max_retries
    /\ \A i \in 1..(Len(CallOutcomes) - 1) :
         /\ CallOutcomes[i].kind # "ok"
         /\ Retries(CallOutcomes[i])
         /\ rt.waits[i] > 0
    /\ Len(rt.waits) <= Len(CallOutcomes)
    /\ CallOutcomes # <<>> =>
         /\ LastOutcome.kind = "ok" =>
              /\ rt.pc = "returned"
              /\ rt.text = Strip(RemoveThinking(LastOutcome.content))
         /\ LastOutcome.kind # "ok" /\ ~Retries(LastOutcome) =>
              rt.pc = "raised"
         /\ LastOutcome.kind # "ok" /\ Len(CallOutcomes) = max_retries =>
              rt.pc = "raised"
    /\ rt.pc = "returned" => rt.text # NoText


\* the call has failed for good: max_retries requests, every one a failure
\* that is tried again while attempts are left
RetriesExhausted ==
    /\ rt.pc = "raised"
    /\ Len(CallOutcomes) = max_retries
    /\ Retries(LastOutcome)

\* C23: when the retries of a call are exhausted, the error that reaches the
\* caller carries the name of the provider that failed and the retry count.
C23_ErrorCarriesProviderAndRetries ==
    RetriesExhausted =>
        /\ rt.error.provider = rt.provider
        /\ rt.error.retry_count = max_retries

\* the provider the call that has just begun was routed to, as it was
\* configured when the call began
CalledProvider == rt.providers[rt'.key]

\* C29: two consecutive calls routed to a provider with a cooldown of r > 0
\* seconds start at least r apart, the later one waiting out the rest of the
\* interval before it records its start; a call is not delayed once the
\* interval since the last call to its own provider has passed, whenever the
\* other providers were called, and it leaves their recorded starts alone.
C29_BeginCallStep ==
    rt'.calls = rt.calls + 1 =>
        /\ CalledProvider.rate_limit_seconds > 0 =>
             rt'.now >= rt.starts[rt'.key] + CalledProvider.rate_limit_seconds
        /\ rt'.last_request_time[CalledProvider.name] = rt'.now
        /\ rt'.starts[rt'.key] = rt'.now
        /\ rt.now - rt.starts[rt'.key] >= CalledProvider.rate_limit_seconds =>
             rt'.now = rt.now
        /\ \A n \in DOMAIN rt.providers \ {rt'.key} :
             /\ rt'.starts[n] = rt.starts[n]
             /\ rt'.last_request_time[n] = rt.last_request_time[n]
C29_CooldownPerProvider == [][C29_BeginCallStep]_vars

\* a second call routed to a provider with a cooldown has begun after it
\* waited out the rest of the interval, the other providers not called since
C29_Witness_SecondCallWaited ==
    /\ rt.calls > 1
    /\ rt.pc = "attempt"
    /\ rt.cooldown > 0
    /\ rt.providers[rt.key].rate_limit_seconds > 0
    /\ rt.starts[rt.key] = rt.now
    /\ rt.last_request_time[rt.provider] = rt.now
    /\ \A n \in DOMAIN rt.providers \ {rt.key} : rt.starts[n] = 0

\* every provider has the name it is registered under and its timer shows when
\* the last call routed to it began
TimersByKey ==
    \A n \in DOMAIN rt.providers :
        /\ rt.providers[n].name = n
        /\ rt.last_request_time[n] = rt.starts[n]

\* in the hands of a client who calls update_provider_config between the
\* calls (SpecRouterConfig): the interval is kept, with the
\* rate_limit_seconds of the time of the later call, as long as no provider
\* has been given another name
CooldownWhileNamesAreKeys == [][TimersByKey => C29_BeginCallStep]_vars

\* a client has given a provider the name of another one, and a call routed
\* to it has been timed under that name
RenamedProviderCalled ==
    /\ rt.pc = "attempt"
    /\ rt.provider # rt.key
    /\ rt.last_request_time[rt.provider] = rt.now


-----------------------------------------------------------------------------
\* Properties of the generic task in the Patch Executor (SpecPatch)

\* the document has a body paragraph a patch can be attempted on
HasPatchableParagraph ==
    \E i \in DOMAIN pState.paragraphs :
        /\ ~pState.paragraphs[i].is_heading
        /\ ~PatchSkipsCall(pState.paragraphs[i].full_text)

\* C27: when the task list is the lone generic task the Task Planner
\* synthesizes, and the document has a patchable body paragraph, the task is
\* resolved to a paragraph and a patch is attempted for it; it is not skipped
\* as unlocatable.
C27_GenericTaskIsAttempted ==
    (pPc = "loop" /\ pTasks = <<TaskGeneric>> /\ pPos = 2
         /\ HasPatchableParagraph) =>
        /\ pLast.target # 0
        /\ pLast.called
        /\ ~pLast.skipped


-----------------------------------------------------------------------------
\* Properties of a round's phases (SpecController)

\* C22: a generation failure whose retries are exhausted aborts the run in
\* whichever phase of a round it occurs: no round in which a call failed is
\* completed, no result that holds such a round is returned, and a failure
\* in critique, synthesis or task planning has left the run raised.
C22_FailureAbortsRun ==
    /\ \A k \in DOMAIN ctl.all_reviews : ~ctl.all_reviews[k].patch_failed
    /\ \A k \in DOMAIN cResult.all_reviews : ~cResult.all_reviews[k].patch_failed
    /\ ctl.failure # "none" => cPc = "raised" /\ cResult = NoResult

\* C24: the score a round records, which the controller compares with the
\* best score, is the score of the round's post-patch document.
C24_ScoreIsOfPatchedDocument ==
    \A k \in DOMAIN ctl.all_reviews :
        ctl.all_reviews[k].scored = ctl.all_reviews[k].optimized_paper


-----------------------------------------------------------------------------
\* Properties of the round's integrated score (SpecReview)

\* some recognizer matches the synthesis text
SomePatternYields(text) == \E k \in Patterns : RecognizerMatches(k, text)

\* C25: the sum of the four per-axis scores replaces the round's integrated
\* score only when every recognizer failed on the synthesis text; whenever
\* some recognizer matched, the integrated score is the value it extracted,
\* also when that value is 60.
C25_SumOnlyWhenExtractionFailed ==
    (rev.op = "round" /\ rev.done /\ SomePatternYields(rev.input)) =>
        rev.score = ExtractComprehensiveScore(rev.input)

\* C26: the integrated score of every round lies in the range 0 to 100,
\* whatever the critique and synthesis texts are.
C26_ScoreWithinRange ==
    (rev.op = "round" /\ rev.done) =>
        /\ FloatLeq(Zero, rev.score)
        /\ FloatLeq(rev.score, Float(100))


-----------------------------------------------------------------------------
\* Properties of the ledger's position and size (SpecLedger)

\* the (section, subsection) position of the ledger
LedgerPosition(st) == <<st.current_chapter, st.current_subsection>>

\* C28: whenever set_current_section moves the ledger to a different
\* (section, subsection) position, the subsection usage counter restarts at
\* 0, also on the moves introduction -> chapter 1 subsection 0 and chapter k
\* subsection 0 -> chapter k+1 subsection 0.
C28_CounterRestartsOnMove ==
    [][ LedgerPosition(ledger') # LedgerPosition(ledger)
            => ledger'.subsection_used = 0 ]_vars


\* the number of ledger entries
LedgerSize(st) == Cardinality(DOMAIN st.citation_tracker)

\* the draws of random.sample in the ledger's state
ReuseDraws(st) ==
    { reuse_keys \in [1..(IF LedgerSize(st) < 2 THEN LedgerSize(st) ELSE 2)
                        -> DOMAIN st.citation_tracker] :
        IsReuseKeys(st, reuse_keys) }

\* an assign call for which the retriever has no candidate (no index, or
\* every record used) leaves the ledger as it is and returns no citations
EmptyCandidatesChangeNothing ==
    \A reuse_keys \in ReuseDraws(ledger) :
        GenerateSentenceWithCitations(ledger, <<>>, 1, reuse_keys)
            = [ledger |-> ledger, citation_nums |-> <<>>, used_lits |-> <<>>]

\* C30: every assign call increases the number of ledger entries by 0 or 1,
\* and by 0 when the ledger already holds max_total entries, so the ledger
\* never holds more than max_total entries (no other operation adds an
\* entry); a call with no candidate changes nothing in the ledger and
\* returns no citations.
C30_AssignAddsAtMostOne ==
    /\ [](LedgerSize(ledger) <= ledger.max_total_citations)
    /\ []EmptyCandidatesChangeNothing
    /\ [][ /\ LedgerSize(ledger') - LedgerSize(ledger) \in {0, 1}
           /\ LedgerSize(ledger) >= ledger.max_total_citations =>
                LedgerSize(ledger') = LedgerSize(ledger) ]_vars

\* the ledger is full at max_total entries while unused records remain, and
\* the marker numbers issued are 1..max_total
C30_Witness_FullLedger ==
    /\ LedgerSize(ledger) = ledger.max_total_citations
    /\ ledger.max_total_citations > 0
    /\ Cardinality(ledger.pool_used) < Len(Pool)
    /\ ledger.next_citation_num = ledger.max_total_citations + 1

=============================================================================
